---- MODULE Spec2Model ----
(***************************************************************************)
(* Billing service of package-store: the order state machine and the      *)
(* webhook reconciliation of BillingService, with its repositories        *)
(* (orders, webhook_events, payment_audit), the payment gateway and the   *)
(* event publisher.  Every request runs as its own task; a task yields    *)
(* at every await, so each awaited repository / gateway / broker call is  *)
(* one atomic step and the synchronous code after it belongs to the step. *)
(***************************************************************************)
EXTENDS Integers, Sequences, FiniteSets, TLC

\* ---------------------------------------------------------------- bounds
MaxTasks == 2        \* concurrent request tasks
MaxOrders == 2       \* orders that can be created
BaseOrders == 1      \* orders created where one order's life is followed
MaxEvents == 2       \* distinct provider event ids
BaseEvents == 1      \* event ids sent where one event's deliveries are followed
MaxCalls == 3        \* requests that run past their first await
MaxIntents == 2      \* payment-intent ids the gateway hands out
MaxUsers == 2        \* user ids
MaxPage == 3         \* page numbers asked of the order listing
MaxPageSize == 2     \* page sizes asked of the order listing
MaxMessages == 2     \* broker messages the notification subscriber is fed
MaxDeliveries == 2   \* times the broker delivers one message

Tasks == 1..MaxTasks
Users == 1..MaxUsers
Intents == 1..MaxIntents
EventIds == 1..MaxEvents

\* ------------------------------------------------------- program values
None == 0            \* NULL column / Python None

CREATED == "created"
PENDING_PAYMENT == "pending_payment"
PAID == "paid"
FAILED == "failed"
CANCELLED == "cancelled"
NoStatus == "none"
OrderStatus == {CREATED, PENDING_PAYMENT, PAID, FAILED, CANCELLED}

BASIC == "basic"
STANDARD == "standard"
PREMIUM == "premium"
PackageType == {BASIC, STANDARD, PREMIUM}
\* the packages ordered under Spec
Packages == {STANDARD}

\* PackagePricing defaults, in cents
basic_price == 999
standard_price == 2999
premium_price == 9999

\* mutant: every package is given the price of the standard one
get_package_info_flat(package_type) == [price |-> standard_price, currency |-> "USD"]

get_package_info(package_type) ==
    CASE package_type = BASIC -> [price |-> basic_price, currency |-> "USD"]
      [] package_type = STANDARD -> [price |-> standard_price, currency |-> "USD"]
      [] package_type = PREMIUM -> [price |-> premium_price, currency |-> "USD"]

\* stripe event types the dispatcher distinguishes, and one it does not
EvSucceeded == "payment_intent.succeeded"
EvFailed == "payment_intent.payment_failed"
EvCanceled == "payment_intent.canceled"
EvOther == "charge.refunded"
EventTypes == {EvSucceeded, EvFailed, EvCanceled, EvOther}

\* metadata.order_id of an event payload: absent, malformed, or an order id
BadUuid == -1

VARIABLES
    orders,          \* table orders: sequence of rows, id = index
    webhookEvents,   \* table webhook_events: sequence of rows, id = index
    audit,           \* table payment_audit, in insertion order
    published,       \* messages accepted by the broker, in order
    gatewayCalls,    \* calls made to the payment gateway, in order
    clock,           \* datetime.now() as read for paid_at: ticks at every read
    pc,              \* per task: position in the running call
    loc,             \* per task: arguments and locals of the running call
    ret,             \* response of the call that returned in the last step
    calls,           \* requests that ran past their first await
    eventPayload,    \* payload the provider sends under each event id
    deliveries,      \* history: per event id, the deliveries made so far
    writes,          \* history: every status stored by update_status /
                     \* update_payment_intent / create, in commit order
    notifications,   \* bot-service: messages the chat accepted, in order
    brokerDelivered, \* bot-service: per published message, deliveries so far
    refreshTokens,   \* auth-service: table refresh_tokens, in insertion order
    tokenHistory,    \* auth-service history: token pairs returned and logouts
    prev             \* history: the step taken last, its inputs, and the
                     \* billing state it was taken in

vars == <<orders, webhookEvents, audit, published, gatewayCalls, clock, pc,
          loc, ret, calls, eventPayload, deliveries, writes,
          notifications, brokerDelivered, refreshTokens, tokenHistory, prev>>

\* the three services share no storage
BillingUnchanged ==
    UNCHANGED <<orders, webhookEvents, audit, published, gatewayCalls, clock,
                eventPayload, deliveries, writes, prev>>
BotUnchanged == UNCHANGED <<notifications, brokerDelivered>>
AuthUnchanged == UNCHANGED <<refreshTokens, tokenHistory>>
OtherServicesUnchanged == BotUnchanged /\ AuthUnchanged

NoLoc == [op |-> "none", order |-> None, user |-> None, pkg |-> "none",
          event |-> None, type |-> "none", intent |-> None, meta |-> None,
          row |-> None, old |-> NoStatus, paid_at |-> None, error |-> "",
          page |-> None, page_size |-> None, offset |-> None,
          status |-> NoStatus, total |-> None, seen |-> None,
          token |-> None]

NoRet == [op |-> "none", res |-> "none"]

\* the billing state as a step finds it, with the step's name and inputs
Snapshot(action, args) ==
    [action |-> action, args |-> args, orders |-> orders,
     webhookEvents |-> webhookEvents, audit |-> audit, published |-> published,
     gatewayCalls |-> gatewayCalls, pc |-> pc, loc |-> loc, ret |-> ret,
     eventPayload |-> eventPayload, deliveries |-> deliveries,
     writes |-> writes]
Step(action, args) == prev' = Snapshot(action, args)

\* the named parts of the billing state are as the last step found them
Kept(parts) == \A f \in parts : Snapshot(prev.action, prev.args)[f] = prev[f]

Init ==
    /\ orders = <<>>
    /\ webhookEvents = <<>>
    /\ audit = <<>>
    /\ published = <<>>
    /\ gatewayCalls = <<>>
    /\ clock = 1
    /\ pc = [t \in Tasks |-> "idle"]
    /\ loc = [t \in Tasks |-> NoLoc]
    /\ ret = NoRet
    /\ calls = 0
    /\ eventPayload = [e \in EventIds |->
                         [type |-> "none", intent |-> None, error |-> ""]]
    /\ deliveries = [e \in EventIds |->
                       [started |-> 0, first |-> "none", overlapped |-> FALSE]]
    /\ writes = <<>>
    /\ notifications = <<>>
    /\ brokerDelivered = [k \in 1..MaxMessages |-> 0]
    /\ refreshTokens = <<>>
    /\ tokenHistory = [pairs |-> <<>>, logouts |-> {}]
    /\ prev = Snapshot("none", <<>>)

\* ------------------------------------------------------------ helpers
Return(t, op, res) ==
    /\ pc' = [pc EXCEPT ![t] = "idle"]
    /\ loc' = [loc EXCEPT ![t] = NoLoc]
    /\ ret' = [op |-> op, res |-> res]
    /\ UNCHANGED calls

Goto(t, label, newloc) ==
    /\ pc' = [pc EXCEPT ![t] = label]
    /\ loc' = [loc EXCEPT ![t] = newloc]
    /\ ret' = NoRet
    /\ calls' = IF pc[t] = "idle" THEN calls + 1 ELSE calls

\* Ids are opaque: a new user, intent or event id is taken to be the next
\* unused number, which leaves out only renamings of the same behaviour
Max(S) == IF S = {} THEN 0 ELSE CHOOSE x \in S : \A y \in S : y <= x
NextFresh(x, seen) == x \in seen \/ x = Max(seen) + 1

\* the payment intents the gateway has created so far
CreatedIntents ==
    {gatewayCalls[k].intent : k \in {j \in 1..Len(gatewayCalls) :
        gatewayCalls[j].call = "create_payment_intent" /\ gatewayCalls[j].ok}}

\* metadata.order_id of an intent, as create_payment_intent (line 24) set it
\* when the intent was created
IntentMetadata(i) ==
    LET made == {j \in 1..Len(gatewayCalls) :
                    /\ gatewayCalls[j].call = "create_payment_intent"
                    /\ gatewayCalls[j].ok
                    /\ gatewayCalls[j].intent = i}
    IN  gatewayCalls[CHOOSE j \in made : \A k \in made : j <= k].order_id

SeenUsers == {orders[o].user_id : o \in 1..Len(orders)}

\* a request is handed to a free task; tasks are interchangeable, so the
\* lowest-numbered free one takes it
StartCall(t) ==
    /\ pc[t] = "idle"
    /\ \A q \in Tasks : q < t => pc[q] /= "idle"
    /\ calls < MaxCalls
    /\ ret = NoRet

\* ------------------------------------------------ presentation/billing.py
HttpResponse(code, body) == [op |-> code, res |-> body]
HttpCodes == {"HTTP 200", "HTTP 400", "HTTP 401", "HTTP 404"}

\* mutant: an exception of process_webhook is answered with an error status
stripe_webhook_error_surfaces(op, res) ==
    IF op = "construct_webhook_event" THEN HttpResponse("HTTP 400", "Invalid signature")
    ELSE IF res = "ok" THEN HttpResponse("HTTP 200", "success")
    ELSE HttpResponse("HTTP 400", "error")

\* stripe_webhook: a signature failure is HTTP 400; after process_webhook the
\* handler returns a body, {'status': 'success'} or, from its except branch,
\* {'status': 'error', ...}
stripe_webhook(op, res) ==
    IF op = "construct_webhook_event" THEN HttpResponse("HTTP 400", "Invalid signature")
    ELSE IF res = "ok" THEN HttpResponse("HTTP 200", "success")
    ELSE HttpResponse("HTTP 200", "error")

\* the answer each endpoint gives for the outcome of its service call
EndpointResponse(op, res) ==
    CASE op \in {"process_webhook", "construct_webhook_event"} -> stripe_webhook(op, res)
      [] op = "create_order" ->
            IF res = "ok" THEN HttpResponse("HTTP 200", "order")
            ELSE HttpResponse("HTTP 400", res)
      [] op = "get_order" ->
            IF res = "ok" THEN HttpResponse("HTTP 200", "order")
            ELSE HttpResponse("HTTP 404", res)
      [] op = "get_user_orders" -> HttpResponse("HTTP 200", "orders")
      [] op = "cancel_order" ->
            IF res = "ok" THEN HttpResponse("HTTP 200", "order")
            ELSE HttpResponse("HTTP 400", res)
      [] op = "authenticate_with_oauth" -> HttpResponse("HTTP 200", "token_pair")
      [] op = "refresh_access_token" ->
            IF res = "ok" THEN HttpResponse("HTTP 200", "token_pair")
            ELSE HttpResponse("HTTP 401", res)
      [] op = "logout" -> HttpResponse("HTTP 200", "logged_out")

\* the endpoint turns the outcome of its service call into its answer
Respond ==
    /\ OtherServicesUnchanged
    /\ ret /= NoRet
    /\ ret.op \notin HttpCodes
    /\ ret' = EndpointResponse(ret.op, ret.res)
    /\ UNCHANGED <<orders, webhookEvents, audit, published, gatewayCalls,
                   clock, pc, loc, calls, eventPayload, deliveries, writes>>

\* the answer goes out to the client
ResponseSent ==
    /\ OtherServicesUnchanged
    /\ ret.op \in HttpCodes
    /\ ret' = NoRet
    /\ UNCHANGED <<orders, webhookEvents, audit, published, gatewayCalls,
                   clock, pc, loc, calls, eventPayload, deliveries, writes>>

\* ------------------------------------------------- OrderRepository
OrderRepository_create(user_id, package_type, amount) ==
    [user_id |-> user_id, package_type |-> package_type, amount |-> amount,
     status |-> CREATED, stripe_payment_intent_id |-> None,
     stripe_client_secret |-> None, paid_at |-> None]

\* mutant: the column is declared without unique=True
IntentUnique_off(ords, order_id, payment_intent_id) == TRUE

\* unique=True on orders.stripe_payment_intent_id
IntentUnique(ords, order_id, payment_intent_id) ==
    \A o \in 1..Len(ords) :
        o /= order_id => ords[o].stripe_payment_intent_id /= payment_intent_id

update_payment_intent(ords, order_id, payment_intent_id, client_secret) ==
    [ords EXCEPT ![order_id] =
        [@ EXCEPT !.stripe_payment_intent_id = payment_intent_id,
                  !.stripe_client_secret = client_secret,
                  !.status = PENDING_PAYMENT]]

\* mutant: paid_at is put in the UPDATE whether or not it was passed
update_status_always_sets_paid_at(ords, order_id, new_status, paid_at) ==
    [ords EXCEPT ![order_id] =
        [@ EXCEPT !.status = new_status, !.paid_at = paid_at]]

\* mutant: paid_at is left out of the UPDATE
update_status_drops_paid_at(ords, order_id, new_status, paid_at) ==
    [ords EXCEPT ![order_id] = [@ EXCEPT !.status = new_status]]

update_status(ords, order_id, new_status, paid_at) ==
    [ords EXCEPT ![order_id] =
        [@ EXCEPT !.status = new_status,
                  !.paid_at = IF paid_at /= None THEN paid_at ELSE @]]

\* mutant: when no order holds the intent id, an order without one matches
get_by_payment_intent_id_matches_null(ords, payment_intent_id) ==
    IF \E o \in 1..Len(ords) : ords[o].stripe_payment_intent_id = payment_intent_id
    THEN CHOOSE o \in 1..Len(ords) : ords[o].stripe_payment_intent_id = payment_intent_id
    ELSE IF \E o \in 1..Len(ords) : ords[o].stripe_payment_intent_id = None
    THEN CHOOSE o \in 1..Len(ords) : ords[o].stripe_payment_intent_id = None
    ELSE None

get_by_payment_intent_id(ords, payment_intent_id) ==
    IF \E o \in 1..Len(ords) : ords[o].stripe_payment_intent_id = payment_intent_id
    THEN CHOOSE o \in 1..Len(ords) : ords[o].stripe_payment_intent_id = payment_intent_id
    ELSE None

\* ------------------------------------------- PaymentAuditRepository
log_action(order_id, action, new_status, old_status, stripe_event_id, details) ==
    Append(audit, [order_id |-> order_id, action |-> action,
                   old_status |-> old_status, new_status |-> new_status,
                   stripe_event_id |-> stripe_event_id, details |-> details])

Stored(order_id, status) == Append(writes, [order_id |-> order_id, status |-> status])

\* ------------------------------------------- BillingService.create_order
\* order_repo.create (line 105)
CreateOrder(t, user_id, package_type) ==
    /\ OtherServicesUnchanged
    /\ StartCall(t)
    /\ Len(orders) < MaxOrders
    /\ NextFresh(user_id, SeenUsers)
    /\ orders' = Append(orders,
          OrderRepository_create(user_id, package_type,
                                 get_package_info(package_type).price))
    /\ writes' = Stored(Len(orders) + 1, CREATED)
    /\ Goto(t, "co_audit1",
            [NoLoc EXCEPT !.op = "create_order", !.order = Len(orders) + 1,
                          !.user = user_id, !.pkg = package_type])
    /\ UNCHANGED <<webhookEvents, audit, published, gatewayCalls, clock,
                   eventPayload, deliveries>>

\* audit_repo.log_action 'order_created' (line 114)
CreateOrderAudit(t) ==
    /\ OtherServicesUnchanged
    /\ pc[t] = "co_audit1"
    /\ ret = NoRet
    /\ audit' = log_action(loc[t].order, "order_created", CREATED, NoStatus,
                           None, <<"Package: ", loc[t].pkg>>)
    /\ Goto(t, "co_intent", loc[t])
    /\ UNCHANGED <<orders, webhookEvents, published, gatewayCalls, clock,
                   eventPayload, deliveries, writes>>

\* mutant: the except branch logs the error and does not re-raise it
CreateOrderIntent_error_swallowed(t) ==
    /\ OtherServicesUnchanged
    /\ pc[t] = "co_intent"
    /\ ret = NoRet
    /\ \/ \E i \in Intents :
            /\ NextFresh(i, CreatedIntents)
            /\ gatewayCalls' = Append(gatewayCalls,
                  [call |-> "create_payment_intent", order_id |-> loc[t].order,
                   intent |-> i, ok |-> TRUE])
            /\ Goto(t, "co_update", [loc[t] EXCEPT !.intent = i])
       \/ /\ gatewayCalls' = Append(gatewayCalls,
                  [call |-> "create_payment_intent", order_id |-> loc[t].order,
                   intent |-> None, ok |-> FALSE])
          /\ Goto(t, "co_publish", loc[t])
    /\ UNCHANGED <<orders, webhookEvents, audit, published, clock,
                   eventPayload, deliveries, writes>>

\* stripe_service.create_payment_intent (line 122); a StripeError is re-raised
CreateOrderIntent(t) ==
    /\ OtherServicesUnchanged
    /\ pc[t] = "co_intent"
    /\ ret = NoRet
    /\ \/ \E i \in Intents :
            /\ NextFresh(i, CreatedIntents)
            /\ gatewayCalls' = Append(gatewayCalls,
                  [call |-> "create_payment_intent", order_id |-> loc[t].order,
                   intent |-> i, ok |-> TRUE])
            /\ Goto(t, "co_update", [loc[t] EXCEPT !.intent = i])
       \/ /\ gatewayCalls' = Append(gatewayCalls,
                  [call |-> "create_payment_intent", order_id |-> loc[t].order,
                   intent |-> None, ok |-> FALSE])
          /\ Return(t, "create_order", "gateway_error")
    /\ UNCHANGED <<orders, webhookEvents, audit, published, clock,
                   eventPayload, deliveries, writes>>

\* order_repo.update_payment_intent (line 129); the unique constraint on
\* stripe_payment_intent_id rejects an id another order holds
CreateOrderUpdate(t) ==
    /\ OtherServicesUnchanged
    /\ pc[t] = "co_update"
    /\ ret = NoRet
    /\ IF IntentUnique(orders, loc[t].order, loc[t].intent)
       THEN /\ orders' = update_payment_intent(orders, loc[t].order,
                                               loc[t].intent, loc[t].intent)
            /\ writes' = Stored(loc[t].order, PENDING_PAYMENT)
            /\ Goto(t, "co_audit2", loc[t])
       ELSE /\ UNCHANGED <<orders, writes>>
            /\ Return(t, "create_order", "integrity_error")
    /\ UNCHANGED <<webhookEvents, audit, published, gatewayCalls, clock,
                   eventPayload, deliveries>>

\* audit_repo.log_action 'payment_intent_created' (line 135)
CreateOrderAudit2(t) ==
    /\ OtherServicesUnchanged
    /\ pc[t] = "co_audit2"
    /\ ret = NoRet
    /\ audit' = log_action(loc[t].order, "payment_intent_created",
                           PENDING_PAYMENT, CREATED, None,
                           <<"Payment Intent ID: ", loc[t].intent>>)
    /\ Goto(t, "co_publish", loc[t])
    /\ UNCHANGED <<orders, webhookEvents, published, gatewayCalls, clock,
                   eventPayload, deliveries, writes>>

\* event_publisher.publish_order_created (line 147); a broker error is re-raised
CreateOrderPublish(t) ==
    /\ OtherServicesUnchanged
    /\ pc[t] = "co_publish"
    /\ ret = NoRet
    /\ \/ /\ published' = Append(published,
                [event |-> "order.created", order_id |-> loc[t].order,
                 user_id |-> loc[t].user,
                 amount |-> orders[loc[t].order].amount,
                 paid_at |-> None, intent |-> None, reason |-> ""])
          /\ Return(t, "create_order", "ok")
       \/ /\ UNCHANGED published
          /\ Return(t, "create_order", "publish_error")
    /\ UNCHANGED <<orders, webhookEvents, audit, gatewayCalls, clock,
                   eventPayload, deliveries, writes>>

\* ---------------------------------------------- BillingService.get_order
\* order_repo.get_by_id (line 170) and the two checks after it
get_order_result(ords, order_id, user_id) ==
    IF order_id > Len(ords) THEN "not_found"
    ELSE IF ords[order_id].user_id /= user_id THEN "access_denied"
    ELSE "ok"

GetOrder(t, order_id, user_id) ==
    /\ OtherServicesUnchanged
    /\ StartCall(t)
    /\ Return(t, "get_order", get_order_result(orders, order_id, user_id))
    /\ UNCHANGED <<orders, webhookEvents, audit, published, gatewayCalls,
                   clock, eventPayload, deliveries, writes>>

\* ------------------------------------ OrderRepository.get_user_orders
\* WHERE user_id = ... [AND status = ...]; no status filter is NoStatus
UserOrders(ords, user_id, status) ==
    {o \in 1..Len(ords) :
        /\ ords[o].user_id = user_id
        /\ status /= NoStatus => ords[o].status = status}

\* ORDER BY created_at DESC: order ids are handed out in creation order
RECURSIVE OrderByCreatedDesc(_)
OrderByCreatedDesc(S) ==
    IF S = {} THEN <<>>
    ELSE <<Max(S)>> \o OrderByCreatedDesc(S \ {Max(S)})

\* select(func.count()) over the filtered query (line 72)
count_query(ords, user_id, status) == Cardinality(UserOrders(ords, user_id, status))

\* mutant: the rows are skipped up to and including the asked page
page_query_skips_page(ords, user_id, status, limit, offset) ==
    LET rows == OrderByCreatedDesc(UserOrders(ords, user_id, status))
        from == offset + limit + 1
        to == IF offset + 2 * limit < Len(rows) THEN offset + 2 * limit
              ELSE Len(rows)
    IN  SubSeq(rows, from, to)

\* .order_by(created_at.desc()).limit(limit).offset(offset) (line 76)
page_query(ords, user_id, status, limit, offset) ==
    LET rows == OrderByCreatedDesc(UserOrders(ords, user_id, status))
        to == IF offset + limit < Len(rows) THEN offset + limit ELSE Len(rows)
    IN  SubSeq(rows, offset + 1, to)

\* --------------------------------------- BillingService.get_user_orders
\* offset = (page - 1) * page_size, then the count query of the repository;
\* seen remembers how many status writes had been stored when it ran
GetUserOrders(t, user_id, page, page_size, status) ==
    /\ OtherServicesUnchanged
    /\ StartCall(t)
    /\ Goto(t, "lo_page",
            [NoLoc EXCEPT !.op = "get_user_orders", !.user = user_id,
                          !.page = page, !.page_size = page_size,
                          !.offset = (page - 1) * page_size,
                          !.status = status,
                          !.total = count_query(orders, user_id, status),
                          !.seen = Len(writes)])
    /\ UNCHANGED <<orders, webhookEvents, audit, published, gatewayCalls,
                   clock, eventPayload, deliveries, writes>>

\* the page query of the repository, a statement of its own, and the return
GetUserOrdersPage(t) ==
    /\ OtherServicesUnchanged
    /\ pc[t] = "lo_page"
    /\ ret = NoRet
    /\ pc' = [pc EXCEPT ![t] = "idle"]
    /\ loc' = [loc EXCEPT ![t] = NoLoc]
    /\ ret' = [op |-> "get_user_orders", res |-> "ok",
               orders |-> page_query(orders, loc[t].user, loc[t].status,
                                     loc[t].page_size, loc[t].offset),
               total |-> loc[t].total]
    /\ UNCHANGED <<orders, webhookEvents, audit, published, gatewayCalls,
                   clock, calls, eventPayload, deliveries, writes>>

\* -------------------------------------------- BillingService.cancel_order
\* mutant: only an already cancelled order is refused
Cancellable_unless_cancelled(status) == status /= CANCELLED

\* the status test of line 207
Cancellable(status) == status \in {CREATED, PENDING_PAYMENT}

\* mutant: the ownership check is left out
cancel_order_check_no_owner(ords, order_id, user_id) ==
    IF order_id > Len(ords) THEN "not_found"
    ELSE IF ords[order_id].status \notin {CREATED, PENDING_PAYMENT}
         THEN "invalid_state"
    ELSE "ok"

\* the checks of lines 201-208 on the row read at line 199
cancel_order_check(ords, order_id, user_id) ==
    IF order_id > Len(ords) THEN "not_found"
    ELSE IF ords[order_id].user_id /= user_id THEN "access_denied"
    ELSE IF ~Cancellable(ords[order_id].status) THEN "invalid_state"
    ELSE "ok"

\* mutant: the gateway is called whether or not the order has an intent
CancelOrder_always_calls_gateway(t, order_id, user_id) ==
    /\ OtherServicesUnchanged
    /\ StartCall(t)
    /\ LET res == cancel_order_check(orders, order_id, user_id) IN
       IF res /= "ok"
       THEN Return(t, "cancel_order", res)
       ELSE Goto(t, "ca_gateway",
                 [NoLoc EXCEPT !.op = "cancel_order", !.order = order_id,
                               !.user = user_id,
                               !.intent = orders[order_id].stripe_payment_intent_id,
                               !.old = orders[order_id].status])
    /\ UNCHANGED <<orders, webhookEvents, audit, published, gatewayCalls,
                   clock, eventPayload, deliveries, writes>>

\* order_repo.get_by_id (line 199), then the checks
CancelOrder(t, order_id, user_id) ==
    /\ OtherServicesUnchanged
    /\ StartCall(t)
    /\ LET res == cancel_order_check(orders, order_id, user_id) IN
       IF res /= "ok"
       THEN Return(t, "cancel_order", res)
       ELSE Goto(t,
                 IF orders[order_id].stripe_payment_intent_id /= None
                 THEN "ca_gateway" ELSE "ca_update",
                 [NoLoc EXCEPT !.op = "cancel_order", !.order = order_id,
                               !.user = user_id,
                               !.intent = orders[order_id].stripe_payment_intent_id,
                               !.old = orders[order_id].status])
    /\ UNCHANGED <<orders, webhookEvents, audit, published, gatewayCalls,
                   clock, eventPayload, deliveries, writes>>

\* mutant: a failure of the gateway's cancel call is raised to the caller
CancelOrderGateway_failure_raised(t) ==
    /\ OtherServicesUnchanged
    /\ pc[t] = "ca_gateway"
    /\ ret = NoRet
    /\ \E ok \in BOOLEAN :
         /\ gatewayCalls' = Append(gatewayCalls,
               [call |-> "cancel_payment_intent", order_id |-> loc[t].order,
                intent |-> loc[t].intent, ok |-> ok])
         /\ IF ok THEN Goto(t, "ca_update", loc[t])
            ELSE Return(t, "cancel_order", "gateway_error")
    /\ UNCHANGED <<orders, webhookEvents, audit, published, clock,
                   eventPayload, deliveries, writes>>

\* stripe_service.cancel_payment_intent (line 212); its failure is only logged
CancelOrderGateway(t) ==
    /\ OtherServicesUnchanged
    /\ pc[t] = "ca_gateway"
    /\ ret = NoRet
    /\ \E ok \in BOOLEAN :
         gatewayCalls' = Append(gatewayCalls,
               [call |-> "cancel_payment_intent", order_id |-> loc[t].order,
                intent |-> loc[t].intent, ok |-> ok])
    /\ Goto(t, "ca_update", loc[t])
    /\ UNCHANGED <<orders, webhookEvents, audit, published, clock,
                   eventPayload, deliveries, writes>>

\* order_repo.update_status CANCELLED (line 219)
CancelOrderUpdate(t) ==
    /\ OtherServicesUnchanged
    /\ pc[t] = "ca_update"
    /\ ret = NoRet
    /\ orders' = update_status(orders, loc[t].order, CANCELLED, None)
    /\ writes' = Stored(loc[t].order, CANCELLED)
    /\ Goto(t, "ca_audit", loc[t])
    /\ UNCHANGED <<webhookEvents, audit, published, gatewayCalls, clock,
                   eventPayload, deliveries>>

\* audit_repo.log_action 'order_cancelled' (line 224)
CancelOrderAudit(t) ==
    /\ OtherServicesUnchanged
    /\ pc[t] = "ca_audit"
    /\ ret = NoRet
    /\ audit' = log_action(loc[t].order, "order_cancelled", CANCELLED,
                           loc[t].old, None, <<>>)
    /\ Return(t, "cancel_order", "ok")
    /\ UNCHANGED <<orders, webhookEvents, published, gatewayCalls, clock,
                   eventPayload, deliveries, writes>>

\* ------------------------------------------------ WebhookEventRepository
WebhookEventRepository_create(stripe_event_id, event_type, order_id) ==
    [stripe_event_id |-> stripe_event_id, event_type |-> event_type,
     order_id |-> order_id, processed |-> FALSE,
     processing_started_at |-> FALSE, processed_at |-> FALSE,
     error_message |-> "", retry_count |-> 0]

\* mutant: the lookup never finds the row
get_by_stripe_event_id_misses(rows, stripe_event_id) == None

get_by_stripe_event_id(rows, stripe_event_id) ==
    IF \E r \in 1..Len(rows) : rows[r].stripe_event_id = stripe_event_id
    THEN CHOOSE r \in 1..Len(rows) : rows[r].stripe_event_id = stripe_event_id
    ELSE None

\* the two timestamp columns of a row are kept as set / not set
mark_processing(rows, event_id) ==
    [rows EXCEPT ![event_id] = [@ EXCEPT !.processing_started_at = TRUE]]

\* mutant: processed is set whatever the outcome
mark_processed_always(rows, event_id, order_id, error_message) ==
    [rows EXCEPT ![event_id] =
        [@ EXCEPT !.processed = TRUE,
                  !.processed_at = TRUE,
                  !.error_message = error_message,
                  !.order_id = IF order_id /= None THEN order_id ELSE @]]

\* mutant: the processed flag is left out of the UPDATE
mark_processed_flag_lost(rows, event_id, order_id, error_message) ==
    [rows EXCEPT ![event_id] =
        [@ EXCEPT !.processed_at = TRUE,
                  !.error_message = error_message,
                  !.order_id = IF order_id /= None THEN order_id ELSE @]]

\* mutant: a success does not clear the error message of an earlier failure
mark_processed_keeps_error(rows, event_id, order_id, error_message) ==
    [rows EXCEPT ![event_id] =
        [@ EXCEPT !.processed = (error_message = ""),
                  !.processed_at = TRUE,
                  !.error_message = IF error_message = "" THEN @
                                    ELSE error_message,
                  !.order_id = IF order_id /= None THEN order_id ELSE @]]

\* 'processed': error_message is None
mark_processed(rows, event_id, order_id, error_message) ==
    [rows EXCEPT ![event_id] =
        [@ EXCEPT !.processed = (error_message = ""),
                  !.processed_at = TRUE,
                  !.error_message = error_message,
                  !.order_id = IF order_id /= None THEN order_id ELSE @]]

\* mutant: the count is stepped by two
increment_retry_count_twice(rows, event_id) ==
    [rows EXCEPT ![event_id] = [@ EXCEPT !.retry_count = @ + 2]]

increment_retry_count(rows, event_id) ==
    [rows EXCEPT ![event_id] = [@ EXCEPT !.retry_count = @ + 1]]

\* ------------------------------- StripeService.extract_order_id_from_event
\* mutant: an event without usable order id is attributed to the first order
extract_order_id_from_event_defaults(meta) ==
    IF meta = None THEN 1
    ELSE IF meta = BadUuid THEN 1
    ELSE meta

\* metadata that is null or otherwise has no .get (line 79), and the
\* AttributeError the call then raises, which `except (ValueError, KeyError)`
\* (line 90) does not catch
NotMapping == -2
AttributeError == -3

extract_order_id_from_event(meta) ==
    IF meta = None THEN None
    ELSE IF meta = BadUuid THEN None
    ELSE IF meta = NotMapping THEN AttributeError
    ELSE meta

\* ------------------------------------------ BillingService.process_webhook
\* history of deliveries: how many were started (counted up to 2), whether one
\* started while another of the same event id was running, and how the first
\* one to return ended
Delivering(e) == {t \in Tasks : loc[t].op = "process_webhook" /\ loc[t].event = e}

Started(d, e) ==
    [d EXCEPT ![e] = [@ EXCEPT !.started = IF @ < 2 THEN @ + 1 ELSE @,
                               !.overlapped = @ \/ Delivering(e) /= {}]]

Ended(d, e, res) ==
    [d EXCEPT ![e] = [@ EXCEPT !.first = IF @ = "none" THEN res ELSE @]]

NoPayload == [type |-> "none", intent |-> None, error |-> ""]
OrphanIntent == MaxIntents + 1
\* last_payment_error.message of a payment_failed payload: a text, or absent
CardDeclined == "Your card was declined."
Payloads ==
    {pl \in [type : EventTypes, intent : Intents \cup {OrphanIntent},
             error : {"", CardDeclined}] :
        pl.error /= "" => pl.type = EvFailed}

\* payment_intent.get('last_payment_error', {}).get('message', 'Unknown error')
failure_reason(error) == IF error = "" THEN "Unknown error" ELSE error
\* metadata.order_id of the payload: what the intent was created with; for an
\* intent this service did not create it is absent or not a UUID
Metadata(i) == IF i \in CreatedIntents THEN {IntentMetadata(i)}
               ELSE {None, BadUuid}

Handled(event_type) == event_type \in {EvSucceeded, EvFailed, EvCanceled}

\* mutant: the rejected request is recorded in webhook_events
StripeWebhookBadSignature_recorded(t) ==
    /\ OtherServicesUnchanged
    /\ StartCall(t)
    /\ Len(webhookEvents) < MaxEvents
    /\ webhookEvents' = Append(webhookEvents,
          [stripe_event_id |-> None, event_type |-> "none", order_id |-> None,
           processed |-> FALSE, processing_started_at |-> FALSE,
           processed_at |-> FALSE, error_message |-> "Invalid signature",
           retry_count |-> 0])
    /\ Return(t, "construct_webhook_event", "invalid_signature")
    /\ UNCHANGED <<orders, audit, published, gatewayCalls,
                   clock, eventPayload, deliveries, writes>>

\* stripe_webhook: construct_webhook_event rejects the signature, and
\* process_webhook is not called
StripeWebhookBadSignature(t) ==
    /\ OtherServicesUnchanged
    /\ StartCall(t)
    /\ Return(t, "construct_webhook_event", "invalid_signature")
    /\ UNCHANGED <<orders, webhookEvents, audit, published, gatewayCalls,
                   clock, eventPayload, deliveries, writes>>

\* webhook_repo.get_by_stripe_event_id (line 243) and the branch on it
DeliverEvent(t, e, payload, meta) ==
    /\ OtherServicesUnchanged
    /\ StartCall(t)
    /\ IF eventPayload[e] = NoPayload
       THEN /\ payload \in Payloads
            /\ payload.intent \in CreatedIntents \cup {OrphanIntent}
            /\ NextFresh(e, {x \in EventIds : eventPayload[x] /= NoPayload})
       ELSE payload = eventPayload[e]
    /\ eventPayload' = [eventPayload EXCEPT ![e] = payload]
    /\ LET r == get_by_stripe_event_id(webhookEvents, e)
           l == [NoLoc EXCEPT !.op = "process_webhook", !.event = e,
                              !.type = payload.type, !.intent = payload.intent,
                              !.error = payload.error,
                              !.row = r]
           m == extract_order_id_from_event(meta)
       IN  IF r /= None
           THEN IF webhookEvents[r].processed
                THEN /\ Return(t, "process_webhook", "ok")
                     /\ deliveries' = Ended(Started(deliveries, e), e, "ok")
                ELSE /\ Goto(t, "wh_retry", l)
                     /\ deliveries' = Started(deliveries, e)
           ELSE IF m = AttributeError
                THEN /\ ret' = [op |-> "process_webhook", res |-> "error"]
                     /\ calls' = calls + 1
                     /\ UNCHANGED <<pc, loc>>
                     /\ deliveries' = Ended(Started(deliveries, e), e, "error")
                ELSE /\ Goto(t, "wh_create", [l EXCEPT !.meta = m])
                     /\ deliveries' = Started(deliveries, e)
    /\ UNCHANGED <<orders, webhookEvents, audit, published, gatewayCalls,
                   clock, writes>>

\* process_webhook for an event as the provider sends it
ProcessWebhook(t, e, payload, meta) ==
    /\ StartCall(t)
    /\ meta \in Metadata(payload.intent)
    /\ DeliverEvent(t, e, payload, meta)

\* process_webhook for an event whose metadata may have any shape
MetadataShapes(i) == Metadata(i) \cup {NotMapping}
ProcessWebhookAnyMetadata(t, e, payload, meta) ==
    /\ StartCall(t)
    /\ meta \in MetadataShapes(payload.intent)
    /\ DeliverEvent(t, e, payload, meta)

\* mutant: a redelivery only counts the retry and returns
WebhookRetry_only_counts(t) ==
    /\ OtherServicesUnchanged
    /\ pc[t] = "wh_retry"
    /\ ret = NoRet
    /\ webhookEvents' = increment_retry_count(webhookEvents, loc[t].row)
    /\ Return(t, "process_webhook", "ok")
    /\ deliveries' = Ended(deliveries, loc[t].event, "ok")
    /\ UNCHANGED <<orders, audit, published, gatewayCalls, clock,
                   eventPayload, writes>>

\* webhook_repo.increment_retry_count (line 250)
WebhookRetry(t) ==
    /\ OtherServicesUnchanged
    /\ pc[t] = "wh_retry"
    /\ ret = NoRet
    /\ webhookEvents' = increment_retry_count(webhookEvents, loc[t].row)
    /\ Goto(t, "wh_marking", loc[t])
    /\ UNCHANGED <<orders, audit, published, gatewayCalls, clock,
                   eventPayload, deliveries, writes>>

\* webhook_repo.create (line 253); the unique index on stripe_event_id rejects
\* a second row for the event id, and the error leaves process_webhook
WebhookCreate(t) ==
    /\ OtherServicesUnchanged
    /\ pc[t] = "wh_create"
    /\ ret = NoRet
    /\ IF get_by_stripe_event_id(webhookEvents, loc[t].event) = None
       THEN /\ webhookEvents' = Append(webhookEvents,
                  WebhookEventRepository_create(loc[t].event, loc[t].type,
                                                loc[t].meta))
            /\ Goto(t, "wh_marking", [loc[t] EXCEPT !.row = Len(webhookEvents) + 1])
            /\ UNCHANGED deliveries
       ELSE /\ UNCHANGED webhookEvents
            /\ Return(t, "process_webhook", "integrity_error")
            /\ deliveries' = Ended(deliveries, loc[t].event, "integrity_error")
    /\ UNCHANGED <<orders, audit, published, gatewayCalls, clock,
                   eventPayload, writes>>

\* webhook_repo.mark_processing (line 260), then the dispatch of lines 263-270
WebhookMarkProcessing(t) ==
    /\ OtherServicesUnchanged
    /\ pc[t] = "wh_marking"
    /\ ret = NoRet
    /\ webhookEvents' = mark_processing(webhookEvents, loc[t].row)
    /\ UNCHANGED clock
    /\ Goto(t, IF Handled(loc[t].type) THEN "wh_find" ELSE "wh_done", loc[t])
    /\ UNCHANGED <<orders, audit, published, gatewayCalls,
                   eventPayload, deliveries, writes>>

\* mutant: an event whose intent id matches no order is treated as an error
WebhookFindOrder_orphan_raises(t) ==
    /\ OtherServicesUnchanged
    /\ pc[t] = "wh_find"
    /\ ret = NoRet
    /\ LET o == get_by_payment_intent_id(orders, loc[t].intent) IN
       IF o = None
       THEN Goto(t, "wh_err", loc[t])
       ELSE Goto(t, "wh_link", [loc[t] EXCEPT !.order = o, !.old = orders[o].status])
    /\ UNCHANGED <<orders, webhookEvents, audit, published, gatewayCalls,
                   clock, eventPayload, deliveries, writes>>

\* order_repo.get_by_payment_intent_id (lines 291, 341, 383)
WebhookFindOrder(t) ==
    /\ OtherServicesUnchanged
    /\ pc[t] = "wh_find"
    /\ ret = NoRet
    /\ LET o == get_by_payment_intent_id(orders, loc[t].intent) IN
       IF o = None
       THEN Goto(t, "wh_done", loc[t])
       ELSE Goto(t, "wh_link", [loc[t] EXCEPT !.order = o, !.old = orders[o].status])
    /\ UNCHANGED <<orders, webhookEvents, audit, published, gatewayCalls,
                   clock, eventPayload, deliveries, writes>>

\* mutant: the already-paid test is left out
AlreadyPaid_never(event_type, status) == FALSE

\* the test of line 298, made by _handle_payment_succeeded only
AlreadyPaid(event_type, status) == event_type = EvSucceeded /\ status = PAID

\* webhook_repo.mark_processed(order_id=...) (lines 296, 346, 387)
WebhookLinkOrder(t) ==
    /\ OtherServicesUnchanged
    /\ pc[t] = "wh_link"
    /\ ret = NoRet
    /\ webhookEvents' = mark_processed(webhookEvents, loc[t].row, loc[t].order,
                                       "")
    /\ UNCHANGED clock
    /\ Goto(t, IF AlreadyPaid(loc[t].type, loc[t].old) THEN "wh_done"
               ELSE "wh_update", loc[t])
    /\ UNCHANGED <<orders, audit, published, gatewayCalls,
                   eventPayload, deliveries, writes>>

TargetStatus(event_type) ==
    CASE event_type = EvSucceeded -> PAID
      [] event_type = EvFailed -> FAILED
      [] event_type = EvCanceled -> CANCELLED

AuditAction(event_type) ==
    CASE event_type = EvSucceeded -> "payment_succeeded"
      [] event_type = EvFailed -> "payment_failed"
      [] event_type = EvCanceled -> "payment_canceled"

\* mutant: the payment_failed entry is written without the failure reason
AuditDetails_without_reason(l) ==
    CASE l.type = EvSucceeded -> <<"Payment Intent: ", l.intent>>
      [] OTHER -> <<>>

\* details of the audit entry a handler writes (lines 316, 361; none at 395)
AuditDetails(l) ==
    CASE l.type = EvSucceeded -> <<"Payment Intent: ", l.intent>>
      [] l.type = EvFailed -> <<"Error: ", failure_reason(l.error)>>
      [] OTHER -> <<>>

\* order_repo.update_status (lines 304, 349, 390); paid_at = datetime.now()
\* is passed by _handle_payment_succeeded only
WebhookUpdate(t) ==
    /\ OtherServicesUnchanged
    /\ pc[t] = "wh_update"
    /\ ret = NoRet
    /\ orders' = update_status(orders, loc[t].order, TargetStatus(loc[t].type),
                               IF loc[t].type = EvSucceeded THEN clock ELSE None)
    /\ clock' = IF loc[t].type = EvSucceeded THEN clock + 1 ELSE clock
    /\ writes' = Stored(loc[t].order, TargetStatus(loc[t].type))
    /\ Goto(t, "wh_audit",
            [loc[t] EXCEPT !.paid_at = IF loc[t].type = EvSucceeded THEN clock
                                       ELSE None])
    /\ UNCHANGED <<webhookEvents, audit, published, gatewayCalls,
                   eventPayload, deliveries>>

\* mutant: the audit entry is not yet written when the handler goes on
WebhookAudit_not_written(t) ==
    /\ OtherServicesUnchanged
    /\ pc[t] = "wh_audit"
    /\ ret = NoRet
    /\ Goto(t, IF loc[t].type = EvCanceled THEN "wh_done" ELSE "wh_publish", loc[t])
    /\ UNCHANGED <<orders, webhookEvents, audit, published, gatewayCalls, clock,
                   eventPayload, deliveries, writes>>

\* mutant: the payment_canceled handler goes on to publish like the others
WebhookAudit_always_publishes(t) ==
    /\ OtherServicesUnchanged
    /\ pc[t] = "wh_audit"
    /\ ret = NoRet
    /\ audit' = log_action(loc[t].order, AuditAction(loc[t].type),
                           TargetStatus(loc[t].type), loc[t].old, loc[t].event,
                           AuditDetails(loc[t]))
    /\ Goto(t, "wh_publish", loc[t])
    /\ UNCHANGED <<orders, webhookEvents, published, gatewayCalls, clock,
                   eventPayload, deliveries, writes>>

\* audit_repo.log_action (lines 310, 355, 395)
WebhookAudit(t) ==
    /\ OtherServicesUnchanged
    /\ pc[t] = "wh_audit"
    /\ ret = NoRet
    /\ audit' = log_action(loc[t].order, AuditAction(loc[t].type),
                           TargetStatus(loc[t].type), loc[t].old, loc[t].event,
                           AuditDetails(loc[t]))
    /\ Goto(t, IF loc[t].type = EvCanceled THEN "wh_done" ELSE "wh_publish", loc[t])
    /\ UNCHANGED <<orders, webhookEvents, published, gatewayCalls, clock,
                   eventPayload, deliveries, writes>>

\* mutant: a failed publish puts the order back to the status read before
WebhookPublish_rolls_back(t) ==
    /\ OtherServicesUnchanged
    /\ pc[t] = "wh_publish"
    /\ ret = NoRet
    /\ \/ /\ published' = Append(published,
                [event |-> IF loc[t].type = EvSucceeded THEN "order.paid"
                           ELSE "order.failed",
                 order_id |-> loc[t].order,
                 user_id |-> orders[loc[t].order].user_id,
                 amount |-> IF loc[t].type = EvSucceeded
                            THEN orders[loc[t].order].amount ELSE None,
                 paid_at |-> loc[t].paid_at,
                 intent |-> IF loc[t].type = EvSucceeded THEN loc[t].intent
                            ELSE None,
                 reason |-> IF loc[t].type = EvFailed
                            THEN failure_reason(loc[t].error) ELSE ""])
          /\ Goto(t, "wh_done", loc[t])
          /\ UNCHANGED orders
       \/ /\ UNCHANGED published
          /\ orders' = [orders EXCEPT ![loc[t].order].status = loc[t].old]
          /\ Goto(t, "wh_err", loc[t])
    /\ UNCHANGED <<webhookEvents, audit, gatewayCalls, clock,
                   eventPayload, deliveries, writes>>

\* publish_order_paid (line 319) / publish_order_failed (line 364); a broker
\* error is re-raised into the except branch of process_webhook
WebhookPublish(t) ==
    /\ OtherServicesUnchanged
    /\ pc[t] = "wh_publish"
    /\ ret = NoRet
    /\ \/ /\ published' = Append(published,
                [event |-> IF loc[t].type = EvSucceeded THEN "order.paid"
                           ELSE "order.failed",
                 order_id |-> loc[t].order,
                 user_id |-> orders[loc[t].order].user_id,
                 amount |-> IF loc[t].type = EvSucceeded
                            THEN orders[loc[t].order].amount ELSE None,
                 paid_at |-> loc[t].paid_at,
                 intent |-> IF loc[t].type = EvSucceeded THEN loc[t].intent
                            ELSE None,
                 reason |-> IF loc[t].type = EvFailed
                            THEN failure_reason(loc[t].error) ELSE ""])
          /\ Goto(t, "wh_done", loc[t])
       \/ /\ UNCHANGED published
          /\ Goto(t, "wh_err", loc[t])
    /\ UNCHANGED <<orders, webhookEvents, audit, gatewayCalls, clock,
                   eventPayload, deliveries, writes>>

\* webhook_repo.mark_processed (line 272), normal return
WebhookDone(t) ==
    /\ OtherServicesUnchanged
    /\ pc[t] = "wh_done"
    /\ ret = NoRet
    /\ webhookEvents' = mark_processed(webhookEvents, loc[t].row, None, "")
    /\ UNCHANGED clock
    /\ Return(t, "process_webhook", "ok")
    /\ deliveries' = Ended(deliveries, loc[t].event, "ok")
    /\ UNCHANGED <<orders, audit, published, gatewayCalls,
                   eventPayload, writes>>

\* except branch: webhook_repo.mark_processed(error_message=...) (line 277), raise
WebhookError(t) ==
    /\ OtherServicesUnchanged
    /\ pc[t] = "wh_err"
    /\ ret = NoRet
    /\ webhookEvents' = mark_processed(webhookEvents, loc[t].row, None,
                                       "Error processing webhook")
    /\ UNCHANGED clock
    /\ Return(t, "process_webhook", "error")
    /\ deliveries' = Ended(deliveries, loc[t].event, "error")
    /\ UNCHANGED <<orders, audit, published, gatewayCalls,
                   eventPayload, writes>>

\* the requests of the order endpoints: at most n orders are created and
\* orders 1..n addressed, of the given package types
OrderRequests(n, packages) ==
    \/ \E t \in Tasks, u \in Users, k \in packages :
          /\ Len(orders) < n
          /\ CreateOrder(t, u, k)
          /\ Step("CreateOrder", <<t, u, k>>)
    \/ \E t \in Tasks, o \in 1..n, u \in Users :
          GetOrder(t, o, u) /\ Step("GetOrder", <<t, o, u>>)
    \/ \E t \in Tasks, o \in 1..n, u \in Users :
          CancelOrder(t, o, u) /\ Step("CancelOrder", <<t, o, u>>)

\* what create_order and cancel_order do after their first await
OrderSteps ==
    \/ \E t \in Tasks : CreateOrderAudit(t) /\ Step("CreateOrderAudit", <<t>>)
    \/ \E t \in Tasks : CreateOrderIntent(t) /\ Step("CreateOrderIntent", <<t>>)
    \/ \E t \in Tasks : CreateOrderUpdate(t) /\ Step("CreateOrderUpdate", <<t>>)
    \/ \E t \in Tasks : CreateOrderAudit2(t) /\ Step("CreateOrderAudit2", <<t>>)
    \/ \E t \in Tasks : CreateOrderPublish(t) /\ Step("CreateOrderPublish", <<t>>)
    \/ \E t \in Tasks : CancelOrderGateway(t) /\ Step("CancelOrderGateway", <<t>>)
    \/ \E t \in Tasks : CancelOrderUpdate(t) /\ Step("CancelOrderUpdate", <<t>>)
    \/ \E t \in Tasks : CancelOrderAudit(t) /\ Step("CancelOrderAudit", <<t>>)

\* the requests of the webhook endpoint: event ids 1..m, about orders 1..n
WebhookRequests(n, m) ==
    \/ \E t \in Tasks, e \in 1..m, pl \in Payloads,
         meta \in {None, BadUuid} \cup (1..n) :
          /\ ProcessWebhook(t, e, pl, meta)
          /\ Step("ProcessWebhook", <<t, e, pl, meta>>)
    \/ \E t \in Tasks :
          /\ StripeWebhookBadSignature(t)
          /\ Step("StripeWebhookBadSignature", <<t>>)

\* what process_webhook does after its first await
WebhookSteps ==
    \/ \E t \in Tasks : WebhookRetry(t) /\ Step("WebhookRetry", <<t>>)
    \/ \E t \in Tasks : WebhookCreate(t) /\ Step("WebhookCreate", <<t>>)
    \/ \E t \in Tasks : WebhookMarkProcessing(t) /\ Step("WebhookMarkProcessing", <<t>>)
    \/ \E t \in Tasks : WebhookFindOrder(t) /\ Step("WebhookFindOrder", <<t>>)
    \/ \E t \in Tasks : WebhookLinkOrder(t) /\ Step("WebhookLinkOrder", <<t>>)
    \/ \E t \in Tasks : WebhookUpdate(t) /\ Step("WebhookUpdate", <<t>>)
    \/ \E t \in Tasks : WebhookAudit(t) /\ Step("WebhookAudit", <<t>>)
    \/ \E t \in Tasks : WebhookPublish(t) /\ Step("WebhookPublish", <<t>>)
    \/ \E t \in Tasks : WebhookDone(t) /\ Step("WebhookDone", <<t>>)
    \/ \E t \in Tasks : WebhookError(t) /\ Step("WebhookError", <<t>>)

\* the endpoint's response leaves the service
Responses ==
    \/ Respond /\ Step("Respond", <<>>)
    \/ ResponseSent /\ Step("ResponseSent", <<>>)

\* every endpoint, for one order and one event id: the life of an order and
\* the deliveries of an event, under every interleaving of MaxCalls requests
Next ==
    \/ OrderRequests(BaseOrders, Packages)
    \/ OrderSteps
    \/ WebhookRequests(BaseOrders, BaseEvents)
    \/ WebhookSteps
    \/ Responses

Spec == Init /\ [][Next]_vars

\* ---------------------------------------------------- several event ids
\* every endpoint, for one order and MaxEvents event ids
NextManyEvents ==
    \/ OrderRequests(BaseOrders, Packages)
    \/ OrderSteps
    \/ WebhookRequests(BaseOrders, MaxEvents)
    \/ WebhookSteps
    \/ Responses

SpecManyEvents == Init /\ [][NextManyEvents]_vars

\* ------------------------------------------------------- several orders
\* the order endpoints alone (no webhook is delivered), for MaxOrders orders
NextManyOrders ==
    \/ OrderRequests(MaxOrders, Packages)
    \/ OrderSteps
    \/ Responses

SpecManyOrders == Init /\ [][NextManyOrders]_vars

\* ------------------------------------------- events of any metadata shape
\* the webhook endpoint alone, before any order exists (every intent id is one
\* the service never issued), with deliveries whose metadata may be something
\* else than a mapping
NextAnyEvent ==
    \/ \E t \in Tasks, e \in EventIds, pl \in Payloads,
         m \in {None, BadUuid, NotMapping} \cup (1..MaxOrders) :
          /\ ProcessWebhookAnyMetadata(t, e, pl, m)
          /\ Step("ProcessWebhook", <<t, e, pl, m>>)
    \/ \E t \in Tasks : WebhookRetry(t) /\ Step("WebhookRetry", <<t>>)
    \/ \E t \in Tasks : WebhookCreate(t) /\ Step("WebhookCreate", <<t>>)
    \/ \E t \in Tasks : WebhookMarkProcessing(t) /\ Step("WebhookMarkProcessing", <<t>>)
    \/ \E t \in Tasks : WebhookFindOrder(t) /\ Step("WebhookFindOrder", <<t>>)
    \/ \E t \in Tasks : WebhookDone(t) /\ Step("WebhookDone", <<t>>)
    \/ Responses

SpecAnyEvent == Init /\ [][NextAnyEvent]_vars

\* ------------------------------------------------- bot-service subscribers
\* the messages billing puts on the orders exchange, one per routing key and
\* order
BrokerEvents ==
    {[event |-> "order.created", order_id |-> o, user_id |-> 1,
      amount |-> standard_price, paid_at |-> None, intent |-> None,
      reason |-> ""] : o \in 1..MaxOrders}
    \cup {[event |-> "order.paid", order_id |-> o, user_id |-> 1,
           amount |-> standard_price, paid_at |-> 1, intent |-> o,
           reason |-> ""] : o \in 1..MaxOrders}
    \cup {[event |-> "order.failed", order_id |-> o, user_id |-> 1,
           amount |-> None, paid_at |-> None, intent |-> None,
           reason |-> CardDeclined] : o \in 1..MaxOrders}

\* OrderEventHandler: the text sent for an event
handle_created(event) ==
    <<"Order Created", event.user_id, event.order_id, event.amount>>
handle_paid(event) ==
    <<"Order Paid", event.user_id, event.order_id, event.amount,
      event.paid_at, event.intent>>
handle_failed(event) ==
    <<"Order Failed", event.user_id, event.order_id, event.reason>>

\* one delivery of message k to the subscriber of its queue: the handler
\* awaits notifier.send_message and swallows its exception; the broker may
\* deliver the message again
Subscriber(k, routing_key, text) ==
    /\ BillingUnchanged /\ AuthUnchanged
    /\ k \in 1..Len(published) /\ k \in DOMAIN brokerDelivered
    /\ published[k].event = routing_key
    /\ brokerDelivered[k] < MaxDeliveries
    /\ brokerDelivered' = [brokerDelivered EXCEPT ![k] = @ + 1]
    /\ \/ notifications' = Append(notifications, [message |-> k, text |-> text])
       \/ UNCHANGED notifications
    /\ UNCHANGED <<pc, loc, ret, calls>>

\* subscribers.py: queue order.created
on_order_created(k) ==
    /\ k \in 1..Len(published)
    /\ Subscriber(k, "order.created", handle_created(published[k]))

\* subscribers.py: queue order.paid
on_order_paid(k) ==
    /\ k \in 1..Len(published)
    /\ Subscriber(k, "order.paid", handle_paid(published[k]))

\* subscribers.py: queue order.failed
on_order_failed(k) ==
    /\ k \in 1..Len(published)
    /\ Subscriber(k, "order.failed", handle_failed(published[k]))


\* the subscriber alone, fed any short sequence of billing's messages
InitBot ==
    /\ orders = <<>>
    /\ webhookEvents = <<>>
    /\ audit = <<>>
    /\ published \in UNION {[1..n -> BrokerEvents] : n \in 0..MaxMessages}
    /\ gatewayCalls = <<>>
    /\ clock = 1
    /\ pc = [t \in Tasks |-> "idle"]
    /\ loc = [t \in Tasks |-> NoLoc]
    /\ ret = NoRet
    /\ calls = 0
    /\ eventPayload = [e \in EventIds |-> NoPayload]
    /\ deliveries = [e \in EventIds |->
                       [started |-> 0, first |-> "none", overlapped |-> FALSE]]
    /\ writes = <<>>
    /\ notifications = <<>>
    /\ brokerDelivered = [k \in 1..MaxMessages |-> 0]
    /\ refreshTokens = <<>>
    /\ tokenHistory = [pairs |-> <<>>, logouts |-> {}]
    /\ prev = Snapshot("none", <<>>)

NextBot ==
    \/ \E k \in 1..MaxMessages : on_order_created(k)
    \/ \E k \in 1..MaxMessages : on_order_paid(k)
    \/ \E k \in 1..MaxMessages : on_order_failed(k)

SpecBot == InitBot /\ [][NextBot]_vars

\* ------------------------------------------------- auth-service
\* Refresh tokens are numbered in the order create_refresh_token makes them
\* (its random jti makes every token new); ForgedToken is one the service
\* never signed.
MaxTokens == 3
ForgedToken == MaxTokens + 1

\* JWTService.hash_token
hash_token(token) == <<"sha256", token>>

\* JWTService.verify_refresh_token: the signature is the service's own
verify_refresh_token(token) ==
    \E r \in 1..Len(refreshTokens) : refreshTokens[r].token_hash = hash_token(token)

\* RefreshTokenRepository.create
RefreshTokenRepository_create(rows, user_id, token_hash) ==
    Append(rows, [user_id |-> user_id, token_hash |-> token_hash,
                  revoked_at |-> None])

\* RefreshTokenRepository.get_by_hash: the row of the hash that is not revoked
get_by_hash(rows, token_hash) ==
    IF \E r \in 1..Len(rows) :
          rows[r].token_hash = token_hash /\ rows[r].revoked_at = None
    THEN CHOOSE r \in 1..Len(rows) :
          rows[r].token_hash = token_hash /\ rows[r].revoked_at = None
    ELSE None

\* RefreshTokenRepository.revoke: revoked_at = now on every row of the hash
revoke(rows, token_hash) ==
    [r \in 1..Len(rows) |->
        IF rows[r].token_hash = token_hash
        THEN [rows[r] EXCEPT !.revoked_at = 1] ELSE rows[r]]

\* a client can present a token the service has issued, or a forged one
Presentable(token) == token \in (1..Len(refreshTokens)) \cup {ForgedToken}

\* token rows made and about to be made
TokensInUse ==
    Len(refreshTokens)
    + Cardinality({t \in Tasks : loc[t].op = "refresh_access_token"})

\* AuthService.authenticate_with_oauth: the user lookups touch the users
\* table only; the call ends by storing the hash of a new refresh token
AuthenticateWithOauth(t, user_id) ==
    /\ BillingUnchanged /\ BotUnchanged
    /\ StartCall(t)
    /\ TokensInUse < MaxTokens
    /\ NextFresh(user_id, {refreshTokens[r].user_id : r \in 1..Len(refreshTokens)})
    /\ LET new == Len(refreshTokens) + 1 IN
       /\ refreshTokens' = RefreshTokenRepository_create(refreshTokens, user_id,
                                                         hash_token(new))
       /\ tokenHistory' = [tokenHistory EXCEPT !.pairs =
              Append(@, [from |-> None, refresh_token |-> new])]
    /\ Return(t, "authenticate_with_oauth", "ok")

\* AuthService.refresh_access_token up to get_by_hash (lines 66-75)
RefreshAccessToken(t, token) ==
    /\ BillingUnchanged /\ BotUnchanged
    /\ StartCall(t)
    /\ Presentable(token)
    /\ TokensInUse < MaxTokens
    /\ UNCHANGED <<refreshTokens, tokenHistory>>
    /\ IF ~verify_refresh_token(token)
       THEN Return(t, "refresh_access_token", "invalid_refresh_token")
       ELSE LET stored_token == get_by_hash(refreshTokens, hash_token(token)) IN
            IF stored_token = None
            THEN Return(t, "refresh_access_token", "not_found_or_revoked")
            ELSE Goto(t, "rf_user",
                      [NoLoc EXCEPT !.op = "refresh_access_token",
                                    !.token = token, !.row = stored_token,
                                    !.user = refreshTokens[stored_token].user_id])

\* user_repo.get_by_id (line 78); users are never deleted
RefreshGetUser(t) ==
    /\ BillingUnchanged /\ BotUnchanged
    /\ pc[t] = "rf_user"
    /\ ret = NoRet
    /\ UNCHANGED <<refreshTokens, tokenHistory>>
    /\ Goto(t, "rf_revoke", loc[t])

\* refresh_token_repo.revoke (line 83)
RefreshRevoke(t) ==
    /\ BillingUnchanged /\ BotUnchanged
    /\ pc[t] = "rf_revoke"
    /\ ret = NoRet
    /\ refreshTokens' = revoke(refreshTokens, hash_token(loc[t].token))
    /\ UNCHANGED tokenHistory
    /\ Goto(t, "rf_create", loc[t])

\* create_token_pair and refresh_token_repo.create (lines 85-95)
RefreshCreate(t) ==
    /\ BillingUnchanged /\ BotUnchanged
    /\ pc[t] = "rf_create"
    /\ ret = NoRet
    /\ LET new == Len(refreshTokens) + 1 IN
       /\ refreshTokens' = RefreshTokenRepository_create(refreshTokens,
                                loc[t].user, hash_token(new))
       /\ tokenHistory' = [tokenHistory EXCEPT !.pairs =
              Append(@, [from |-> loc[t].token, refresh_token |-> new])]
    /\ Return(t, "refresh_access_token", "ok")

\* AuthService.logout (lines 97-99)
Logout(t, token) ==
    /\ BillingUnchanged /\ BotUnchanged
    /\ StartCall(t)
    /\ Presentable(token)
    /\ refreshTokens' = revoke(refreshTokens, hash_token(token))
    /\ tokenHistory' = [tokenHistory EXCEPT !.logouts = @ \cup {token}]
    /\ Return(t, "logout", "ok")

PresentedTokens == (1..MaxTokens) \cup {ForgedToken}

NextAuth ==
    \/ \E t \in Tasks, u \in Users : AuthenticateWithOauth(t, u)
    \/ \E t \in Tasks, token \in PresentedTokens : RefreshAccessToken(t, token)
    \/ \E t \in Tasks : RefreshGetUser(t)
    \/ \E t \in Tasks : RefreshRevoke(t)
    \/ \E t \in Tasks : RefreshCreate(t)
    \/ \E t \in Tasks, token \in PresentedTokens : Logout(t, token)
    \/ Responses

SpecAuth == Init /\ [][NextAuth]_vars

\* ------------------------------------------- orders of every package type
\* the order endpoints alone (no webhook is delivered), with create_order called
\* for each PackageType
NextAllPackages ==
    \/ OrderRequests(BaseOrders, PackageType)
    \/ OrderSteps
    \/ Responses

SpecAllPackages == Init /\ [][NextAllPackages]_vars

\* ------------------------------------------------------ the order listing
\* the order endpoints with get_orders (no webhook is delivered)
StatusFilters == {NoStatus, CREATED, PENDING_PAYMENT, CANCELLED}

NextListOrders ==
    \/ \E t \in Tasks, u \in Users, k \in Packages :
          CreateOrder(t, u, k) /\ Step("CreateOrder", <<t, u, k>>)
    \/ \E t \in Tasks, o \in 1..MaxOrders, u \in Users :
          CancelOrder(t, o, u) /\ Step("CancelOrder", <<t, o, u>>)
    \/ OrderSteps
    \/ \E t \in Tasks, u \in Users, p \in 1..MaxPage, s \in 1..MaxPageSize,
         st \in StatusFilters :
          /\ GetUserOrders(t, u, p, s, st)
          /\ Step("GetUserOrders", <<t, u, p, s, st>>)
    \/ \E t \in Tasks : GetUserOrdersPage(t) /\ Step("GetUserOrdersPage", <<t>>)
    \/ Responses

SpecListOrders == Init /\ [][NextListOrders]_vars

\* ------------------------------------------------------------ properties
Terminal == {PAID, FAILED, CANCELLED}
OrderIds == 1..Len(orders)
AnyMetadata == {None, BadUuid} \cup (1..MaxOrders)

AuditEntries(o, action) ==
    {k \in 1..Len(audit) : audit[k].order_id = o /\ audit[k].action = action}
AuditEntriesTo(o, status) ==
    {k \in 1..Len(audit) : audit[k].order_id = o /\ audit[k].new_status = status}
AuditEntriesOf(e) == {k \in 1..Len(audit) : audit[k].stripe_event_id = e}
Published(o, event) ==
    {k \in 1..Len(published) : published[k].order_id = o /\ published[k].event = event}
StatusWritesIn(w, o, status) ==
    {k \in 1..Len(w) : w[k].order_id = o /\ w[k].status = status}
StatusWrites(o, status) == StatusWritesIn(writes, o, status)

\* C1: a delivery of an event id whose only earlier delivery has returned
\* successfully returns success at once and changes no order, audit entry,
\* published event or webhook row; the event id keeps at most one audit entry.
C1_SecondDeliveryIsNoOp ==
    prev.action = "ProcessWebhook"
    => LET t == prev.args[1]
           e == prev.args[2]
       IN  (/\ prev.deliveries[e].started = 1
            /\ prev.deliveries[e].first = "ok")
           => /\ ret = [op |-> "process_webhook", res |-> "ok"]
              /\ pc[t] = "idle"
              /\ Kept({"orders", "audit", "published", "webhookEvents"})
              /\ Cardinality(AuditEntriesOf(e)) <= 1

C1_Witness ==
    \E e \in EventIds :
        /\ deliveries[e].started = 2
        /\ deliveries[e].first = "ok"
        /\ ~deliveries[e].overlapped
        /\ Cardinality(AuditEntriesOf(e)) = 1
        /\ ret = [op |-> "process_webhook", res |-> "ok"]
        /\ \A t \in Tasks : pc[t] = "idle"

\* C2: when one payment-succeeded event id is delivered twice in parallel (and
\* no other event is delivered), no order gets more than one payment_succeeded
\* audit entry and no more than one order.paid event is published for it.
C2_ParallelDeliveryPaysOnce ==
    \A e \in EventIds :
        (/\ eventPayload[e].type = EvSucceeded
         /\ deliveries[e].overlapped
         /\ \A x \in EventIds \ {e} : deliveries[x].started = 0)
        => \A o \in OrderIds :
              /\ Cardinality(AuditEntries(o, "payment_succeeded")) <= 1
              /\ Cardinality(Published(o, "order.paid")) <= 1

\* C3: an order whose status is paid, failed or cancelled keeps that status in
\* every step.
C3_TerminalStatusIsFinal ==
    [][\A o \in OrderIds :
          orders[o].status \in Terminal => orders'[o].status = orders[o].status]_vars

\* C4: a payment-succeeded delivery that resolves its order and finds it paid
\* publishes nothing, writes no audit entry and leaves the order (its paid_at
\* included) as it is, in each of its steps from the lookup on.
C4_AlreadyPaidIsNoOp ==
    \A t \in Tasks :
        (/\ prev.loc[t].type = EvSucceeded
         /\ pc[t] /= prev.pc[t]
         /\ \/ /\ prev.pc[t] = "wh_find"
               /\ get_by_payment_intent_id(prev.orders, prev.loc[t].intent) /= None
               /\ prev.orders[get_by_payment_intent_id(prev.orders,
                                                       prev.loc[t].intent)].status = PAID
            \/ /\ prev.pc[t] \in {"wh_link", "wh_update", "wh_audit", "wh_publish",
                                  "wh_done", "wh_err"}
               /\ prev.loc[t].old = PAID)
        => /\ Kept({"audit", "published", "orders"})
           /\ pc[t] \in {"wh_link", "wh_done", "idle"}

C4_Witness ==
    \E t \in Tasks, e \in EventIds :
        /\ loc[t].type = EvSucceeded /\ loc[t].old = PAID
        /\ pc[t] = "wh_done"
        /\ loc[t].event = e /\ AuditEntriesOf(e) = {}

C6_PaidAtIffEverPaid ==
    \A o \in OrderIds :
        (orders[o].paid_at /= None) <=> (StatusWrites(o, PAID) /= {})

C6_Witness ==
    \E o \in OrderIds :
        /\ orders[o].paid_at /= None
        /\ orders[o].status /= PAID

\* C7: a payment-intent id that is set on an order stays as it is in every
\* step, and no two orders hold the same payment-intent id.
C7_IntentStableAndUnique ==
    /\ \A o1, o2 \in OrderIds :
          (/\ o1 /= o2
           /\ orders[o1].stripe_payment_intent_id /= None)
          => orders[o1].stripe_payment_intent_id
                /= orders[o2].stripe_payment_intent_id
    /\ \A o \in 1..Len(prev.orders) :
          prev.orders[o].stripe_payment_intent_id /= None
          => orders[o].stripe_payment_intent_id
                = prev.orders[o].stripe_payment_intent_id

C7_Witness ==
    /\ ret = [op |-> "create_order", res |-> "integrity_error"]
    /\ \E o1, o2 \in OrderIds :
          /\ orders[o1].stripe_payment_intent_id /= None
          /\ orders[o2].stripe_payment_intent_id = None
          /\ orders[o1].status \in Terminal

\* C8: CancelOrder by the owner of an order that is paid, failed or cancelled
\* returns the invalid-state error at once, calls no gateway, writes no audit
\* entry and leaves the order as it is.
C8_CancelTerminalRejected ==
    prev.action = "CancelOrder"
    => LET t == prev.args[1]
           o == prev.args[2]
           u == prev.args[3]
       IN  (/\ o <= Len(prev.orders)
            /\ prev.orders[o].user_id = u
            /\ prev.orders[o].status \in Terminal)
           => /\ ret = [op |-> "cancel_order", res |-> "invalid_state"]
              /\ pc[t] = "idle"
              /\ Kept({"orders", "audit", "gatewayCalls", "published"})

C8_Witness ==
    /\ ret = [op |-> "cancel_order", res |-> "invalid_state"]
    /\ \E o \in OrderIds : orders[o].status = FAILED

\* C9: GetOrder and CancelOrder on an existing order by a user who is not its
\* owner return AccessDenied, and CancelOrder then calls no gateway and leaves
\* the order and the audit log as they are.
C9_NotOwnerDenied ==
    prev.action \in {"GetOrder", "CancelOrder"}
    => LET t == prev.args[1]
           o == prev.args[2]
           u == prev.args[3]
       IN  (o <= Len(prev.orders) /\ prev.orders[o].user_id /= u)
           => /\ prev.action = "GetOrder"
                 => ret = [op |-> "get_order", res |-> "access_denied"]
              /\ prev.action = "CancelOrder"
                 => /\ ret = [op |-> "cancel_order", res |-> "access_denied"]
                    /\ pc[t] = "idle"
                    /\ Kept({"orders", "audit", "gatewayCalls"})

C9_Witness ==
    /\ ret = [op |-> "cancel_order", res |-> "access_denied"]
    /\ \E o \in OrderIds : orders[o].status = PENDING_PAYMENT

\* C10: for every order and every status a webhook moves it to, the events
\* published for that transition never outnumber the audit entries written
\* for it, and those never outnumber the status writes stored for it.
C10_StoreBeforeAuditBeforePublish ==
    \A o \in OrderIds :
        /\ Cardinality(Published(o, "order.paid"))
              <= Cardinality(AuditEntries(o, "payment_succeeded"))
        /\ Cardinality(AuditEntries(o, "payment_succeeded"))
              <= Cardinality(StatusWrites(o, PAID))
        /\ Cardinality(Published(o, "order.failed"))
              <= Cardinality(AuditEntries(o, "payment_failed"))
        /\ Cardinality(AuditEntries(o, "payment_failed"))
              <= Cardinality(StatusWrites(o, FAILED))
        /\ Cardinality(AuditEntriesTo(o, CANCELLED))
              <= Cardinality(StatusWrites(o, CANCELLED))

C10_Witness ==
    \E o \in OrderIds :
        /\ Published(o, "order.paid") /= {}
        /\ Published(o, "order.failed") /= {}

\* C11: a delivery whose insert of the webhook row is rejected by the unique
\* index on the event id (another delivery inserted the row first) returns
\* without error and dispatches nothing: no order, audit entry or published
\* event changes.
C11_RejectedInsertIsSkip ==
    [][\A t \in Tasks :
          (/\ pc[t] = "wh_create"
           /\ pc'[t] /= pc[t]
           /\ \E r \in 1..Len(webhookEvents) :
                 webhookEvents[r].stripe_event_id = loc[t].event)
          => /\ ret' = [op |-> "process_webhook", res |-> "ok"]
             /\ pc'[t] = "idle"
             /\ UNCHANGED <<orders, audit, published>>]_vars

\* C12: a ProcessWebhook call that finds the row of its event id with
\* processed = true returns success at once and leaves the orders, the audit
\* log, the webhook rows (retry count and timestamps included), the published
\* events and the gateway untouched.
C12_ProcessedRowShortCircuits ==
    prev.action = "ProcessWebhook"
    => LET t == prev.args[1]
           e == prev.args[2]
       IN  (\E r \in 1..Len(prev.webhookEvents) :
               /\ prev.webhookEvents[r].stripe_event_id = e
               /\ prev.webhookEvents[r].processed)
           => /\ ret = [op |-> "process_webhook", res |-> "ok"]
              /\ pc[t] = "idle"
              /\ Kept({"orders", "audit", "published", "webhookEvents",
                       "gatewayCalls"})

\* a second delivery has returned success while the first one, which has
\* linked its order and thereby set processed, is still before its status write
C12_Witness ==
    \E e \in EventIds, t \in Tasks :
        /\ ret = [op |-> "process_webhook", res |-> "ok"]
        /\ deliveries[e].started = 2
        /\ \A x \in EventIds \ {e} : deliveries[x].started = 0
        /\ pc[t] = "wh_update" /\ loc[t].event = e
        /\ webhookEvents[loc[t].row].processed
        /\ webhookEvents[loc[t].row].retry_count = 0

\* the price PackagePricing configures for a package type
ConfiguredPrice(package_type) ==
    CASE package_type = BASIC -> basic_price
      [] package_type = STANDARD -> standard_price
      [] package_type = PREMIUM -> premium_price

AuditOfOrder(log, o) == SelectSeq(log, LAMBDA a : a.order_id = o)

\* C13: for every package type, when a CreateOrder whose gateway and broker
\* calls succeeded returns (no other call having stored a status for the
\* order meanwhile), the order is in pending_payment and holds the intent id
\* and client secret the gateway returned, its audit entries are exactly
\* order_created (no old status, new status created) followed by
\* payment_intent_created (created to pending_payment), and exactly one
\* order.created event is published for it, with the package's configured
\* price as amount.
C13_CreateOrderSucceeds ==
    \A t \in Tasks :
        (/\ prev.pc[t] = "co_publish"
         /\ pc[t] = "idle"
         /\ ret = [op |-> "create_order", res |-> "ok"]
         /\ Cardinality({k \in 1..Len(prev.writes) :
                            prev.writes[k].order_id = prev.loc[t].order}) = 2)
        => LET o == prev.loc[t].order
               intent == prev.loc[t].intent
           IN
           /\ orders[o].status = PENDING_PAYMENT
           /\ intent /= None
           /\ orders[o].stripe_payment_intent_id = intent
           /\ orders[o].stripe_client_secret = intent
           /\ AuditOfOrder(audit, o) =
                 << [order_id |-> o, action |-> "order_created",
                     old_status |-> NoStatus, new_status |-> CREATED,
                     stripe_event_id |-> None,
                     details |-> <<"Package: ", orders[o].package_type>>],
                    [order_id |-> o, action |-> "payment_intent_created",
                     old_status |-> CREATED, new_status |-> PENDING_PAYMENT,
                     stripe_event_id |-> None,
                     details |-> <<"Payment Intent ID: ", intent>>] >>
           /\ \E k \in 1..Len(published) :
                 /\ published[k].event = "order.created"
                 /\ published[k].order_id = o
                 /\ published[k].amount
                       = ConfiguredPrice(orders[o].package_type)
                 /\ \A j \in 1..Len(published) :
                       (/\ published[j].event = "order.created"
                        /\ published[j].order_id = o) => j = k

C13_Witness ==
    /\ ret = [op |-> "create_order", res |-> "ok"]
    /\ \E o \in OrderIds :
          /\ orders[o].package_type = PREMIUM
          /\ orders[o].status = PENDING_PAYMENT
          /\ \E k \in Published(o, "order.created") :
                published[k].amount = premium_price

\* the gateway refused to create the payment intent of order o
IntentCreationFailed(o) ==
    \E j \in 1..Len(gatewayCalls) :
        /\ gatewayCalls[j].call = "create_payment_intent"
        /\ gatewayCalls[j].order_id = o
        /\ ~gatewayCalls[j].ok

\* C14: the step of CreateOrder in which payment-intent creation fails returns
\* the gateway error to the caller and changes no order, audit entry or
\* published event; and an order whose intent creation failed stays stored
\* without payment-intent id and client secret, in created status (unless a
\* CancelOrder later cancels it), with order_created as its only create_order
\* audit entry and with no order.created event published for it.
C14_IntentFailureLeavesCreated ==
    /\ \A t \in Tasks :
          (prev.pc[t] = "co_intent" /\ pc[t] = "idle")
          => /\ ret = [op |-> "create_order", res |-> "gateway_error"]
             /\ Kept({"orders", "audit", "published"})
             /\ prev.loc[t].order \in 1..Len(prev.orders)
    /\ \A o \in OrderIds :
          IntentCreationFailed(o)
          => /\ orders[o].stripe_payment_intent_id = None
             /\ orders[o].stripe_client_secret = None
             /\ StatusWrites(o, CANCELLED) = {} => orders[o].status = CREATED
             /\ orders[o].status \in {CREATED, CANCELLED}
             /\ Cardinality(AuditEntries(o, "order_created")) = 1
             /\ AuditEntries(o, "payment_intent_created") = {}
             /\ StatusWrites(o, CANCELLED) = {}
                   => Len(AuditOfOrder(audit, o)) = 1
             /\ Published(o, "order.created") = {}

C14_Witness ==
    /\ ret = [op |-> "create_order", res |-> "gateway_error"]
    /\ \E o \in OrderIds :
          /\ IntentCreationFailed(o)
          /\ orders[o].status = CREATED
          /\ Len(AuditOfOrder(audit, o)) = 1
          /\ \E o2 \in OrderIds : Published(o2, "order.created") /= {}

\* the status writes of order o, among the writes w and among all so far
WritesOfOrderIn(w, o) == {k \in 1..Len(w) : w[k].order_id = o}
WritesOfOrder(o) == WritesOfOrderIn(writes, o)

\* C15: when the delivery of a payment-succeeded event that found its order
\* in pending_payment returns (its status write being the only one besides
\* the two of create_order), the order is paid with paid_at set, exactly one
\* order.paid event is published for the order and carries the intent id, and
\* the audit log holds exactly one entry moving the order to paid: a
\* payment_succeeded entry from pending_payment, correlated to the event id.
C15_SucceededPaysPendingOrder ==
    \A t \in Tasks :
        (/\ prev.pc[t] = "wh_done" /\ pc[t] = "idle"
         /\ prev.loc[t].type = EvSucceeded
         /\ prev.loc[t].old = PENDING_PAYMENT
         /\ Cardinality(WritesOfOrderIn(prev.writes, prev.loc[t].order)) = 3)
        => LET o == prev.loc[t].order
               e == prev.loc[t].event
           IN
           /\ ret = [op |-> "process_webhook", res |-> "ok"]
           /\ orders[o].status = PAID
           /\ orders[o].paid_at /= None
           /\ \E k \in 1..Len(published) :
                 /\ published[k].event = "order.paid"
                 /\ published[k].order_id = o
                 /\ published[k].intent = orders[o].stripe_payment_intent_id
                 /\ published[k].intent = prev.eventPayload[e].intent
                 /\ published[k].paid_at = orders[o].paid_at
                 /\ \A j \in 1..Len(published) :
                       (/\ published[j].event = "order.paid"
                        /\ published[j].order_id = o) => j = k
           /\ \E k \in 1..Len(audit) :
                 /\ audit[k] = [order_id |-> o,
                                action |-> "payment_succeeded",
                                old_status |-> PENDING_PAYMENT,
                                new_status |-> PAID,
                                stripe_event_id |-> e,
                                details |-> <<"Payment Intent: ",
                                              prev.loc[t].intent>>]
                 /\ \A j \in 1..Len(audit) :
                       (/\ audit[j].order_id = o
                        /\ audit[j].new_status = PAID) => j = k

C15_Witness ==
    /\ ret = [op |-> "process_webhook", res |-> "ok"]
    /\ \A t \in Tasks : pc[t] = "idle"
    /\ \E o \in OrderIds, e \in EventIds :
          /\ orders[o].status = PAID
          /\ orders[o].paid_at /= None
          /\ Cardinality(WritesOfOrder(o)) = 3
          /\ Cardinality(Published(o, "order.paid")) = 1
          /\ eventPayload[e].type = EvSucceeded
          /\ deliveries[e].started = 1
          /\ Cardinality(AuditEntriesOf(e)) = 1

WebhookLabels == {"wh_retry", "wh_create", "wh_marking", "wh_find", "wh_link",
                  "wh_update", "wh_audit", "wh_publish", "wh_done", "wh_err"}

C17_CancelCreatedWithoutIntent ==
    /\ prev.action = "CancelOrder"
       => LET t == prev.args[1]
              o == prev.args[2]
              u == prev.args[3]
          IN  (/\ o <= Len(prev.orders)
               /\ prev.orders[o].user_id = u
               /\ prev.orders[o].status = CREATED
               /\ prev.orders[o].stripe_payment_intent_id = None)
              => /\ pc[t] = "ca_update"
                 /\ loc[t].old = CREATED
                 /\ Kept({"gatewayCalls", "orders", "audit"})
    /\ \A t \in Tasks :
          (/\ prev.loc[t].op = "cancel_order"
           /\ prev.loc[t].old = CREATED
           /\ prev.loc[t].intent = None
           /\ pc[t] /= prev.pc[t])
          => /\ Kept({"gatewayCalls"})
             /\ prev.pc[t] = "ca_update"
                   => /\ orders[prev.loc[t].order].status = CANCELLED
                      /\ pc[t] = "ca_audit"
             /\ prev.pc[t] = "ca_audit"
                   => /\ audit = Append(prev.audit,
                            [order_id |-> prev.loc[t].order,
                             action |-> "order_cancelled",
                             old_status |-> CREATED,
                             new_status |-> CANCELLED,
                             stripe_event_id |-> None,
                             details |-> <<>>])
                      /\ ret = [op |-> "cancel_order", res |-> "ok"]
             /\ prev.pc[t] \in {"ca_update", "ca_audit"}

C17_Witness ==
    /\ ret = [op |-> "cancel_order", res |-> "ok"]
    /\ \E o \in OrderIds :
          /\ orders[o].status = CANCELLED
          /\ orders[o].stripe_payment_intent_id = None
          /\ Len(AuditOfOrder(audit, o)) = 2
          /\ AuditOfOrder(audit, o)[2].old_status = CREATED
          /\ \A j \in 1..Len(gatewayCalls) : gatewayCalls[j].order_id /= o

\* in the gateway calls given, the gateway was asked to cancel the intent of
\* order o and refused every time
GatewayCancelFailedIn(made, o) ==
    /\ \E j \in 1..Len(made) :
          made[j].call = "cancel_payment_intent" /\ made[j].order_id = o
    /\ \A j \in 1..Len(made) :
          (made[j].call = "cancel_payment_intent" /\ made[j].order_id = o)
          => ~made[j].ok

GatewayCancelFailed(o) == GatewayCancelFailedIn(gatewayCalls, o)

\* C18: when the gateway's cancel call of a CancelOrder on a pending_payment
\* order fails, that step reports nothing to the caller and goes on to the
\* status write; the call then stores cancelled, appends the order_cancelled
\* audit entry from pending_payment and returns the order, not an error.
C18_GatewayCancelFailureSwallowed ==
    \A t \in Tasks :
        /\ (/\ prev.pc[t] = "ca_gateway"
            /\ pc[t] /= prev.pc[t]
            /\ ~gatewayCalls[Len(gatewayCalls)].ok)
           => /\ pc[t] = "ca_update"
              /\ ret = NoRet
              /\ loc[t] = prev.loc[t]
        /\ (/\ prev.loc[t].op = "cancel_order"
            /\ prev.loc[t].old = PENDING_PAYMENT
            /\ prev.pc[t] \in {"ca_update", "ca_audit"}
            /\ pc[t] /= prev.pc[t]
            /\ GatewayCancelFailedIn(prev.gatewayCalls, prev.loc[t].order))
           => /\ prev.pc[t] = "ca_update"
                    => /\ orders[prev.loc[t].order].status = CANCELLED
                       /\ pc[t] = "ca_audit"
              /\ prev.pc[t] = "ca_audit"
                    => /\ audit = Append(prev.audit,
                             [order_id |-> prev.loc[t].order,
                              action |-> "order_cancelled",
                              old_status |-> PENDING_PAYMENT,
                              new_status |-> CANCELLED,
                              stripe_event_id |-> None,
                              details |-> <<>>])
                       /\ ret = [op |-> "cancel_order", res |-> "ok"]

C18_Witness ==
    /\ ret = [op |-> "cancel_order", res |-> "ok"]
    /\ \E o \in OrderIds :
          /\ GatewayCancelFailed(o)
          /\ orders[o].status = CANCELLED
          /\ orders[o].stripe_payment_intent_id /= None
          /\ \E k \in AuditEntries(o, "order_cancelled") :
                audit[k].old_status = PENDING_PAYMENT

\* the status most recently stored for order o among the status writes w
LastStoredIn(w, o) ==
    w[CHOOSE k \in WritesOfOrderIn(w, o) :
         \A j \in WritesOfOrderIn(w, o) : j <= k].status

\* the status most recently stored for order o
LastStored(o) == LastStoredIn(writes, o)

\* C19: when the publish of CreateOrder fails, the call returns the publish
\* error and the order row and audit log stay as they were, with both audit
\* entries of the call in the log; when the publish of a webhook transition
\* fails, that step and the error branch after it leave the order rows and the
\* audit log as they were, with the audit entry of the transition in the log,
\* and ProcessWebhook raises the error.  In both cases the order keeps the
\* status most recently stored for it.
C19_PublishFailureKeepsWrites ==
    \A t \in Tasks :
        LET o == prev.loc[t].order IN
        /\ (/\ prev.pc[t] = "co_publish" /\ pc[t] = "idle"
            /\ published = prev.published)
           => /\ ret = [op |-> "create_order", res |-> "publish_error"]
              /\ Kept({"orders", "audit"})
              /\ AuditEntries(o, "order_created") /= {}
              /\ AuditEntries(o, "payment_intent_created") /= {}
              /\ StatusWritesIn(prev.writes, o, PENDING_PAYMENT) /= {}
              /\ orders[o].status = LastStoredIn(prev.writes, o)
        /\ (/\ prev.pc[t] = "wh_publish" /\ pc[t] /= prev.pc[t]
            /\ published = prev.published)
           => /\ pc[t] = "wh_err"
              /\ Kept({"orders", "audit"})
        /\ (prev.pc[t] = "wh_err" /\ pc[t] /= prev.pc[t])
           => /\ ret = [op |-> "process_webhook", res |-> "error"]
              /\ Kept({"orders", "audit"})
              /\ \E k \in AuditEntriesOf(prev.loc[t].event) :
                    /\ audit[k].order_id = o
                    /\ audit[k].new_status = TargetStatus(prev.loc[t].type)
              /\ StatusWritesIn(prev.writes, o,
                                TargetStatus(prev.loc[t].type)) /= {}
              /\ orders[o].status = LastStoredIn(prev.writes, o)

C19_Witness ==
    /\ ret = [op |-> "process_webhook", res |-> "error"]
    /\ \E o \in OrderIds :
          /\ orders[o].status = PAID
          /\ AuditEntries(o, "payment_succeeded") /= {}
          /\ AuditEntries(o, "payment_intent_created") /= {}
          /\ Published(o, "order.paid") = {}
          /\ Published(o, "order.created") = {}

\* C20: whatever outcome process_webhook hands to the webhook endpoint
\* (success, a raised processing error, a raised insert error), the endpoint
\* answers HTTP 200; only a failed signature check, before process_webhook is
\* called, is answered with an error status.
C20_WebhookAlwaysAccepted ==
    (prev.action = "Respond" /\ prev.ret.op = "process_webhook")
    => /\ ret.op = "HTTP 200"
       /\ prev.ret.res \in {"ok", "error", "integrity_error"}
       /\ prev.ret.res /= "ok" => ret.res = "error"

C20_Witness ==
    /\ ret = HttpResponse("HTTP 200", "error")
    /\ \E r \in 1..Len(webhookEvents) :
          /\ webhookEvents[r].error_message /= ""
          /\ ~webhookEvents[r].processed

\* C21: a webhook request whose signature check fails is answered with the
\* signature error (HTTP 400) and changes nothing stored: the webhook rows, the
\* orders, the audit log and the published events stay as they are, and
\* process_webhook is not entered.
C21_BadSignatureChangesNothing ==
    /\ prev.action = "StripeWebhookBadSignature"
       => /\ Kept({"webhookEvents", "orders", "audit", "published",
                   "gatewayCalls", "deliveries"})
          /\ pc[prev.args[1]] = "idle"
          /\ ret = [op |-> "construct_webhook_event",
                    res |-> "invalid_signature"]
    /\ (prev.action = "Respond" /\ prev.ret.op = "construct_webhook_event")
       => /\ ret = HttpResponse("HTTP 400", "Invalid signature")
          /\ Kept({"webhookEvents", "orders", "audit", "published"})

C21_Witness ==
    /\ ret = HttpResponse("HTTP 400", "Invalid signature")
    /\ Len(webhookEvents) > 0
    /\ \E o \in OrderIds : orders[o].status = PENDING_PAYMENT
    /\ \E t \in Tasks : pc[t] \in WebhookLabels

\* the orders of a user that pass the status filter, and the one among them
\* that has exactly n newer ones
MatchingOrdersIn(rows, u, st) ==
    {o \in 1..Len(rows) : rows[o].user_id = u
                          /\ (st = NoStatus \/ rows[o].status = st)}
MatchingOrders(u, st) == MatchingOrdersIn(orders, u, st)
NthNewest(M, n) == CHOOSE o \in M : Cardinality({x \in M : x > o}) = n - 1

\* C22: ListOrders for user u, page p, page size s and status filter st
\* returns the matching orders of u at positions (p-1)*s+1 .. p*s of the
\* descending creation order, as stored when the page is read, and, when no
\* order was created or changed status while the call ran, a total equal to
\* the number of all matching orders of u.
C22_ListOrdersPage ==
    \A t \in Tasks :
        (prev.pc[t] = "lo_page" /\ pc[t] = "idle")
        => LET M == MatchingOrdersIn(prev.orders, prev.loc[t].user,
                                     prev.loc[t].status)
               p == prev.loc[t].page
               s == prev.loc[t].page_size
               pos == {k \in 1..Cardinality(M) :
                          (p - 1) * s + 1 <= k /\ k <= p * s}
           IN  /\ ret.op = "get_user_orders"
               /\ Len(ret.orders) = Cardinality(pos)
               /\ \A i \in 1..Cardinality(pos) :
                     ret.orders[i] = NthNewest(M, (p - 1) * s + i)
               /\ prev.loc[t].seen = Len(prev.writes)
                     => ret.total = Cardinality(M)

C22_Witness ==
    /\ ret.op = "get_user_orders"
    /\ ret.total = 2
    /\ ret.orders = <<1>>
    /\ \E o \in OrderIds : orders[o].status = PENDING_PAYMENT

\* C29: the total a ListOrders call returns equals the number of matching
\* orders of the user in the store as it is when the page is read, also when
\* an order is created or changes status while the call runs.
C29_TotalMatchesPageSnapshot ==
    [][\A t \in Tasks :
          (pc[t] = "lo_page" /\ pc'[t] = "idle")
          => ret'.total
                = Cardinality(MatchingOrders(loc[t].user, loc[t].status))]_vars

\* among the given rows, the row of event id e holds the error of a failed
\* dispatch
ErrorRecordedIn(rows, e) ==
    \E r \in 1..Len(rows) :
        rows[r].stripe_event_id = e /\ rows[r].error_message /= ""

\* the row of event id e holds the error of a failed dispatch
ErrorRecorded(e) == ErrorRecordedIn(webhookEvents, e)

C24_SuccessfulDispatchMarksProcessed ==
    \A t \in Tasks :
        /\ (prev.pc[t] = "wh_done" /\ pc[t] = "idle")
           => LET r == prev.loc[t].row IN
              /\ ret = [op |-> "process_webhook", res |-> "ok"]
              /\ webhookEvents[r].processed
              /\ webhookEvents[r].processed_at
              /\ webhookEvents[r].error_message = ""
              /\ webhookEvents[r].stripe_event_id = prev.loc[t].event
        /\ (/\ prev.loc[t].op = "process_webhook"
            /\ ~Handled(prev.loc[t].type)
            /\ pc[t] /= prev.pc[t])
           => /\ Kept({"orders", "audit", "published"})
              /\ pc[t] \in {"wh_marking", "wh_done", "idle"}

\* an unhandled event and a handled one that found its order have both been
\* processed
C24_Witness ==
    /\ ret = [op |-> "process_webhook", res |-> "ok"]
    /\ \E r \in 1..Len(webhookEvents) :
          /\ webhookEvents[r].event_type = EvOther
          /\ webhookEvents[r].processed
          /\ webhookEvents[r].processed_at
          /\ webhookEvents[r].error_message = ""
    /\ \E r \in 1..Len(webhookEvents) :
          /\ Handled(webhookEvents[r].event_type)
          /\ Cardinality(AuditEntriesOf(webhookEvents[r].stripe_event_id)) = 1
          /\ webhookEvents[r].processed
          /\ webhookEvents[r].error_message = ""
    /\ \A t \in Tasks : pc[t] = "idle"

\* C25: a webhook row is inserted with retry count 0 and still has it while
\* its event id has been delivered once; a delivery that finds the row with
\* processed = false increments its retry count by exactly one (and no other
\* row's), a delivery that finds it with processed = true leaves it as it is,
\* and no step changes a retry count in any other way or decreases it.
C25_RetryCount ==
    /\ \A r \in 1..Len(webhookEvents) :
          deliveries[webhookEvents[r].stripe_event_id].started = 1
          => webhookEvents[r].retry_count = 0
    /\ \A r \in 1..Len(webhookEvents) :
          IF r > Len(prev.webhookEvents)
          THEN webhookEvents[r].retry_count = 0
          ELSE \/ webhookEvents[r].retry_count
                     = prev.webhookEvents[r].retry_count
               \/ /\ webhookEvents[r].retry_count
                        = prev.webhookEvents[r].retry_count + 1
                  /\ \E t \in Tasks :
                        /\ prev.pc[t] = "wh_retry" /\ pc[t] = "wh_marking"
                        /\ prev.loc[t].row = r
    /\ prev.action = "ProcessWebhook"
       => LET t == prev.args[1]
              r == get_by_stripe_event_id(prev.webhookEvents, prev.args[2])
          IN  /\ Kept({"webhookEvents"})
              /\ (r /= None /\ ~prev.webhookEvents[r].processed)
                    => (pc[t] = "wh_retry" /\ loc[t].row = r)
              /\ (r /= None /\ prev.webhookEvents[r].processed)
                    => pc[t] = "idle"
    /\ \A t \in Tasks :
          (prev.pc[t] = "wh_retry" /\ pc[t] /= prev.pc[t])
          => webhookEvents[prev.loc[t].row].retry_count
                = prev.webhookEvents[prev.loc[t].row].retry_count + 1

C25_Witness ==
    /\ \A t \in Tasks : pc[t] = "idle"
    /\ \E r \in 1..Len(webhookEvents) :
          /\ webhookEvents[r].retry_count = 1
          /\ webhookEvents[r].processed
          /\ deliveries[webhookEvents[r].stripe_event_id].first = "error"
    /\ ret = [op |-> "process_webhook", res |-> "ok"]

\* C26: when the delivery of a payment-failed event that found its order in
\* created or pending_payment returns (its status write being the only one
\* besides the two of create_order), the order is failed with paid_at null,
\* the audit log holds exactly one entry of the event: a payment_failed entry
\* from the previous status whose details carry the failure reason (the
\* provider's message, or 'Unknown error' when there is none), and exactly one
\* order.failed event is published for the order, with that reason.
C26_FailedEventFailsOrder ==
    \A t \in Tasks :
        (/\ prev.pc[t] = "wh_done" /\ pc[t] = "idle"
         /\ prev.loc[t].type = EvFailed
         /\ prev.loc[t].old \in {CREATED, PENDING_PAYMENT}
         /\ Cardinality(WritesOfOrderIn(prev.writes, prev.loc[t].order)) = 3)
        => LET o == prev.loc[t].order
               e == prev.loc[t].event
               msg == prev.eventPayload[e].error
               reason == IF msg = "" THEN "Unknown error" ELSE msg IN
           /\ ret = [op |-> "process_webhook", res |-> "ok"]
           /\ orders[o].status = FAILED
           /\ orders[o].paid_at = None
           /\ \E k \in 1..Len(audit) :
                 /\ audit[k] = [order_id |-> o,
                                action |-> "payment_failed",
                                old_status |-> prev.loc[t].old,
                                new_status |-> FAILED,
                                stripe_event_id |-> e,
                                details |-> <<"Error: ", reason>>]
                 /\ \A j \in 1..Len(audit) :
                       (/\ audit[j].order_id = o
                        /\ \/ audit[j].new_status = FAILED
                           \/ audit[j].action = "payment_failed"
                           \/ audit[j].stripe_event_id = e)
                       => j = k
           /\ \E k \in 1..Len(published) :
                 /\ published[k].event = "order.failed"
                 /\ published[k].order_id = o
                 /\ published[k].user_id = orders[o].user_id
                 /\ published[k].reason = reason
                 /\ \A j \in 1..Len(published) :
                       (/\ published[j].event = "order.failed"
                        /\ published[j].order_id = o) => j = k

C26_Witness ==
    /\ ret = [op |-> "process_webhook", res |-> "ok"]
    /\ \A t \in Tasks : pc[t] = "idle"
    /\ \E o \in OrderIds, e \in EventIds :
          /\ orders[o].status = FAILED
          /\ orders[o].paid_at = None
          /\ Cardinality(WritesOfOrder(o)) = 3
          /\ eventPayload[e].type = EvFailed
          /\ eventPayload[e].error = CardDeclined
          /\ deliveries[e].started = 1
          /\ \E k \in 1..Len(published) :
                /\ published[k].event = "order.failed"
                /\ published[k].order_id = o
                /\ published[k].reason = CardDeclined
          /\ \E k \in AuditEntriesOf(e) :
                audit[k].details = <<"Error: ", CardDeclined>>

\* C27: the payment-canceled handler, once it has found the order of the
\* event's intent id, writes status cancelled to it and then appends one
\* payment_canceled audit entry (previous status, event id, no details); no
\* step of a payment-canceled delivery and no step of cancel_order publishes
\* anything, and every event ever published is order.created, order.paid or
\* order.failed.
C27_CancellationPublishesNothing ==
    /\ \A k \in 1..Len(published) :
          published[k].event \in {"order.created", "order.paid", "order.failed"}
    /\ \A t \in Tasks :
          /\ (/\ pc[t] /= prev.pc[t]
              /\ \/ EvCanceled \in {prev.loc[t].type, loc[t].type}
                 \/ "cancel_order" \in {prev.loc[t].op, loc[t].op})
             => Kept({"published"})
          /\ (/\ prev.pc[t] = "wh_update" /\ pc[t] /= prev.pc[t]
              /\ prev.loc[t].type = EvCanceled)
             => /\ orders[prev.loc[t].order].status = CANCELLED
                /\ prev.orders[prev.loc[t].order].stripe_payment_intent_id
                      = prev.loc[t].intent
                /\ pc[t] = "wh_audit"
                /\ Kept({"audit"})
          /\ (/\ prev.pc[t] = "wh_audit" /\ pc[t] /= prev.pc[t]
              /\ prev.loc[t].type = EvCanceled)
             => /\ audit = Append(prev.audit,
                      [order_id |-> prev.loc[t].order,
                       action |-> "payment_canceled",
                       old_status |-> prev.loc[t].old,
                       new_status |-> CANCELLED,
                       stripe_event_id |-> prev.loc[t].event,
                       details |-> <<>>])
                /\ pc[t] = "wh_done"
          /\ (/\ prev.pc[t] = "wh_done" /\ pc[t] /= prev.pc[t]
              /\ prev.loc[t].type = EvCanceled)
             => /\ Kept({"orders", "audit"})
                /\ ret = [op |-> "process_webhook", res |-> "ok"]

C27_Witness ==
    /\ ret = [op |-> "process_webhook", res |-> "ok"]
    /\ \A t \in Tasks : pc[t] = "idle"
    /\ \E o \in OrderIds, e \in EventIds :
          /\ orders[o].status = CANCELLED
          /\ eventPayload[e].type = EvCanceled
          /\ eventPayload[e].intent = orders[o].stripe_payment_intent_id
          /\ deliveries[e].started = 1 /\ deliveries[e].first = "ok"
          /\ Cardinality(AuditEntriesOf(e)) = 1
          /\ \A k \in AuditEntriesOf(e) :
                audit[k].action = "payment_canceled" /\ audit[k].order_id = o
          /\ \A k \in 1..Len(published) :
                published[k].order_id = o => published[k].event = "order.created"

\* C28: a handler of a payment-succeeded, payment-failed or payment-canceled
\* event that finds no order with the event's payment-intent id returns
\* without an error and without touching orders, audit log or published
\* events; the delivery then marks its row processed with no error recorded
\* and returns success. No step of a delivery whose intent id the service
\* never issued changes an order, the audit log or the published events.
C28_OrphanEventIsNoOp ==
    \A t \in Tasks :
        /\ (/\ prev.pc[t] = "wh_find" /\ pc[t] /= prev.pc[t]
            /\ get_by_payment_intent_id(prev.orders, prev.loc[t].intent) = None)
           => /\ Handled(prev.loc[t].type)
              /\ pc[t] = "wh_done"
              /\ loc[t].order = None
              /\ Kept({"orders", "audit", "published", "webhookEvents"})
        /\ (/\ prev.pc[t] = "wh_done" /\ pc[t] /= prev.pc[t]
            /\ prev.loc[t].order = None)
           => LET r == prev.loc[t].row IN
              /\ pc[t] = "idle"
              /\ ret = [op |-> "process_webhook", res |-> "ok"]
              /\ webhookEvents[r].processed
              /\ webhookEvents[r].error_message = ""
              /\ webhookEvents[r].order_id = prev.webhookEvents[r].order_id
              /\ Kept({"orders", "audit", "published"})
        /\ (/\ pc[t] /= prev.pc[t]
            /\ OrphanIntent \in {prev.loc[t].intent, loc[t].intent})
           => /\ Kept({"orders", "audit", "published"})
              /\ pc[t] \notin {"wh_link", "wh_update", "wh_audit",
                               "wh_publish", "wh_err"}

C28_Witness ==
    /\ ret = [op |-> "process_webhook", res |-> "ok"]
    /\ \A t \in Tasks : pc[t] = "idle"
    /\ Len(orders) >= 1
    /\ \E e \in EventIds, r \in 1..Len(webhookEvents) :
          /\ Handled(eventPayload[e].type)
          /\ eventPayload[e].intent = OrphanIntent
          /\ deliveries[e].started = 1 /\ deliveries[e].first = "ok"
          /\ webhookEvents[r].stripe_event_id = e
          /\ webhookEvents[r].processed
          /\ webhookEvents[r].order_id = None
          /\ AuditEntriesOf(e) = {}

\* C30: order-id extraction returns an order id or 'none found' for
\* metadata of every shape, and the delivery of an event that has no row yet
\* goes on to create the row whatever its metadata is.
C30_ExtractionNeverRaises ==
    [][\A t \in Tasks, e \in EventIds, pl \in Payloads,
         m \in {None, BadUuid, NotMapping} \cup (1..MaxOrders) :
          (/\ ProcessWebhookAnyMetadata(t, e, pl, m)
           /\ get_by_stripe_event_id(webhookEvents, e) = None)
          => /\ extract_order_id_from_event(m) \in {None} \cup (1..MaxOrders)
             /\ pc'[t] = "wh_create"
             /\ loc'[t].meta = extract_order_id_from_event(m)]_vars

\* every call so far has returned, and none of them with an error that left
\* a trace: each order's create_order published its event, no gateway or
\* broker call of a delivery failed, and no delivery raised
AllCompletedWithoutError ==
    /\ \A t \in Tasks : pc[t] = "idle"
    /\ \A o \in OrderIds : Published(o, "order.created") /= {}
    /\ \A e \in EventIds : deliveries[e].first /= "error"
    /\ \A r \in 1..Len(webhookEvents) :
          webhookEvents[r].processed /\ webhookEvents[r].error_message = ""

\* C32: once every CreateOrder, CancelOrder and ProcessWebhook call has
\* returned without error, the audit entries of each order, in the order they
\* were written, form a chain: the first has no old status and new status
\* created, each later one starts from the status the one before it ended
\* in, and the last one ends in the status the order has.
C32_AuditEntriesFormChain ==
    AllCompletedWithoutError
    => \A o \in OrderIds :
          LET a == AuditOfOrder(audit, o) IN
          /\ Len(a) >= 1
          /\ a[1].old_status = NoStatus /\ a[1].new_status = CREATED
          /\ \A k \in 2..Len(a) : a[k].old_status = a[k - 1].new_status
          /\ a[Len(a)].new_status = orders[o].status

\* C33: the status update of a CancelOrder that finds the order paid (a
\* payment-succeeded delivery stored paid after CancelOrder's status check)
\* does not store cancelled over it.
C33_CancelNeverOverwritesPayment ==
    [][\A t \in Tasks :
          (/\ pc[t] = "ca_update" /\ pc'[t] /= pc[t]
           /\ loc[t].old \in {CREATED, PENDING_PAYMENT}
           /\ orders[loc[t].order].status = PAID)
          => orders'[loc[t].order].status /= CANCELLED]_vars

\* C34: the intent assignment of a CreateOrder that finds its order cancelled
\* (the owner's CancelOrder stored cancelled while the gateway call was
\* awaited) leaves the order cancelled.
C34_CancelledDuringCreateStaysCancelled ==
    [][\A t \in Tasks :
          (/\ pc[t] = "co_update" /\ pc'[t] /= pc[t]
           /\ orders[loc[t].order].status = CANCELLED)
          => orders'[loc[t].order].status = CANCELLED]_vars

\* C35: under any interleaving of webhook deliveries, at most one order.paid
\* event is ever published for an order, and no step changes an order's
\* paid_at once it is set.
C35_PaidOnce ==
    /\ [](\A o \in OrderIds : Cardinality(Published(o, "order.paid")) <= 1)
    /\ [][\A o \in OrderIds :
            orders[o].paid_at /= None => orders'[o].paid_at = orders[o].paid_at]_vars

\* C36: in every state, for a row of a payment-succeeded, payment-failed or
\* payment-canceled event that has processed = true and whose payment intent
\* is held by an order, the status that event stands for has been stored for
\* that order.
C36_ProcessedImpliesStored ==
    \A r \in 1..Len(webhookEvents) :
        LET e == webhookEvents[r].stripe_event_id
            o == get_by_payment_intent_id(orders, eventPayload[e].intent) IN
        (/\ webhookEvents[r].processed
         /\ Handled(eventPayload[e].type)
         /\ o /= None)
        => StatusWrites(o, TargetStatus(eventPayload[e].type)) /= {}

\* C37: no step of a ProcessWebhook call changes an order that holds no
\* payment-intent id; such an order is changed only by the intent assignment
\* of its own CreateOrder or by the status update of a CancelOrder on it, and
\* otherwise keeps status created and paid_at null.
C37_OrderWithoutIntentUntouchedByWebhooks ==
    /\ \A o \in OrderIds :
          orders[o].stripe_payment_intent_id = None
          => /\ orders[o].paid_at = None
             /\ orders[o].status \in {CREATED, CANCELLED}
    /\ \A o \in 1..Len(prev.orders) :
          prev.orders[o].stripe_payment_intent_id = None
          => /\ (\E t \in Tasks :
                    /\ pc[t] /= prev.pc[t]
                    /\ "process_webhook" \in {prev.loc[t].op, loc[t].op})
                => orders[o] = prev.orders[o]
             /\ orders[o] /= prev.orders[o]
                => \E t \in Tasks :
                      /\ prev.loc[t].order = o
                      /\ \/ prev.pc[t] = "co_update" /\ prev.loc[t].op = "create_order"
                         \/ prev.pc[t] = "ca_update" /\ prev.loc[t].op = "cancel_order"
                      /\ pc[t] /= prev.pc[t]

C37_Witness ==
    /\ \A t \in Tasks : pc[t] = "idle"
    /\ \E o \in OrderIds, e \in EventIds, r \in 1..Len(webhookEvents) :
          /\ orders[o].stripe_payment_intent_id = None
          /\ orders[o].status = CREATED
          /\ IntentCreationFailed(o)
          /\ Handled(eventPayload[e].type)
          /\ webhookEvents[r].stripe_event_id = e
          /\ webhookEvents[r].processed
          /\ webhookEvents[r].order_id = None
          /\ deliveries[e].first = "ok"

\* C31: however often the broker delivers a published order.created,
\* order.paid or order.failed message, at most one chat notification is sent
\* for it.
C31_AtMostOneNotificationPerMessage ==
    \A k \in 1..Len(published) :
        Cardinality({n \in 1..Len(notifications) : notifications[n].message = k}) <= 1

\* the refresh calls that returned a new token pair for a token
RefreshesOf(token) ==
    {k \in 1..Len(tokenHistory.pairs) : tokenHistory.pairs[k].from = token}

\* C38: a refresh token yields at most one new token pair, also when two
\* refresh_access_token calls with it run concurrently, and a
\* refresh_access_token call that starts after a refresh with the token
\* succeeded or after logout was called with it fails.
C38_RefreshTokenUsedOnce ==
    /\ [](\A token \in PresentedTokens : Cardinality(RefreshesOf(token)) <= 1)
    /\ [][\A t \in Tasks, token \in PresentedTokens :
            (/\ RefreshAccessToken(t, token)
             /\ \/ RefreshesOf(token) /= {}
                \/ token \in tokenHistory.logouts)
            => /\ pc'[t] = "idle"
               /\ ret'.op = "refresh_access_token"
               /\ ret'.res /= "ok"]_vars
====
